---------------------------- MODULE Spec2Model ----------------------------
(***************************************************************************)
(* RiskSim: the Monte Carlo trade simulator, the drawdown estimator and    *)
(* the correlation-matrix builder / repair of the asset-correlation page.  *)
(*                                                                         *)
(* Python floats are modelled as exact rationals <<num, den>> (den > 0,    *)
(* lowest terms), so every statement below is a statement about the        *)
(* code's arithmetic before IEEE-754 rounding.  NaN is the pair <<0, 0>>.   *)
(***************************************************************************)
EXTENDS Integers, Sequences, FiniteSets, TLC

(***************************************************************************)
(* Bounds of the model.                                                    *)
(***************************************************************************)
MaxTrades == 3
MaxSimulations == 2
MaxCalls == 2
MaxAssets == 3
MaxRepairCalls == 2
\* mantissa bits of the model's floats in np.spacing (a float64 has 52)
MantissaBits == 8
MaxIterations == 4

(***************************************************************************)
(* Exact rational arithmetic standing for Python float arithmetic.         *)
(***************************************************************************)
Abs(x) == IF x < 0 THEN -x ELSE x

RECURSIVE Gcd(_, _)
Gcd(a, b) == IF b = 0 THEN a ELSE Gcd(b, a % b)

Rat(n, d) ==
    LET s == IF d < 0 THEN -1 ELSE 1
        g == Gcd(Abs(n), Abs(d))
    IN  <<(s * n) \div g, (s * d) \div g>>

RatInt(n) == <<n, 1>>
Lcm(a, b) == (a \div Gcd(a, b)) * b
RatAdd(a, b) ==
    LET l == Lcm(a[2], b[2])
    IN  Rat(a[1] * (l \div a[2]) + b[1] * (l \div b[2]), l)
RatNeg(a) == <<-a[1], a[2]>>
RatSub(a, b) == RatAdd(a, RatNeg(b))
RatMul(a, b) == Rat(a[1] * b[1], a[2] * b[2])
RatDiv(a, b) == Rat(a[1] * b[2], a[2] * b[1])
RatLt(a, b) == a[1] * b[2] < b[1] * a[2]
RatLe(a, b) == a[1] * b[2] <= b[1] * a[2]
RatAbs(a) == <<Abs(a[1]), a[2]>>

RECURSIVE RatPow(_, _)
RatPow(a, n) == IF n <= 0 THEN RatInt(1) ELSE RatMul(a, RatPow(a, n - 1))

\* a rounding int(): the nearest integer instead of truncation
IntOfRounded(a) == (2 * a[1] + a[2]) \div (2 * a[2])

\* int(x) of a float: truncation toward zero
IntOf(a) == IF a[1] >= 0 THEN a[1] \div a[2] ELSE -((-a[1]) \div a[2])

\* [x] * k of a Python list: empty when k <= 0
Repeat(x, k) == IF k <= 0 THEN <<>> ELSE [i \in 1..k |-> x]

(***************************************************************************)
(* Input sets.                                                             *)
(***************************************************************************)
AumSet == {RatInt(100)}
WinRateSet == {RatInt(0), Rat(1, 3), Rat(1, 2), RatInt(1)}
TradesSet == 0..MaxTrades
RiskSet == {RatInt(0), Rat(1, 10), Rat(1, 2), RatInt(1), Rat(3, 2)}
RpurSet == {RatInt(0), Rat(1, 2), RatInt(2)}

VARIABLES
    simulator,      \* the TradingSimulator object's four fields
    year_pc,        \* position inside simulate_year: idle, loop, trades, done
    year_args,      \* simulate_year's arguments
    n_wins,         \* simulate_year's locals
    n_losses,
    results,
    current_aum,
    outcomes,
    trade_idx,      \* position of the inner for loop in outcomes
    last_trade,     \* the most recent simulate_trade invocation and its result
    calls,          \* number of simulate_year calls started
    impl            \* which module is loaded: "utils" or "legacy"

sim_vars == <<simulator, year_pc, year_args, n_wins, n_losses, results,
              current_aum, outcomes, trade_idx, last_trade, calls, impl>>

VARIABLES
    dd_pc,          \* position inside simulate_drawdown: idle, loop, done
    dd_args,        \* simulate_drawdown's arguments
    p_win,
    dd_trades,      \* the trades array of the current trial
    drawdowns,
    dd_result,      \* the value returned
    dd_samples      \* the trades arrays of the trials of this call, in order

dd_vars == <<dd_pc, dd_args, p_win, dd_trades, drawdowns, dd_result,
             dd_samples>>

VARIABLES
    A,              \* nearest_positive_definite's argument
    A3,             \* its working matrix, returned at the end
    spacing,
    k,
    repair_pc,      \* idle, start, projected, loop, returned
    repair_paths,   \* how each call so far returned: "early" or "loop"
    iterations      \* correction-loop iterations of the current call

repair_vars == <<A, A3, spacing, k, repair_pc, repair_paths, iterations>>

VARIABLES
    config,         \* the sidebar inputs of the asset-correlation page
    page_pc,        \* position of the page script
    corr_matrix,
    sidebar_error,  \* st.sidebar.error was shown
    page_error,     \* st.error was shown
    sampled,        \* which random draws the run has made so far
    mean_vector,
    volatility_vector,
    cov_matrix,     \* the covariance of the latest log-return draw
    sampler_mean,   \* the mean of the latest log-return draw
    sweep_idx,      \* position in correlation_values, from 1
    skipped_correlations

page_vars == <<config, page_pc, corr_matrix, sidebar_error, page_error, sampled,
               mean_vector, volatility_vector, cov_matrix, sampler_mean,
               sweep_idx, skipped_correlations>>

VARIABLES
    log_returns,    \* the sampled log returns: one row per day, one entry per asset
    prices,         \* the asset prices, same shape
    portfolio,      \* prices["Portfolio"]
    risk_free_rate,
    metrics_data,   \* the metrics records appended so far
    metrics_pc

metrics_vars == <<log_returns, prices, portfolio, risk_free_rate, metrics_data,
                  metrics_pc>>

VARIABLES
    scenario_pc,    \* position in the trial of the statistical-mean scenario
    wins_left,      \* winning outcomes not yet taken from the shuffled array
    losses_left,
    aum_low,        \* bounds on current_aum, in cents
    aum_high

scenario_vars == <<scenario_pc, wins_left, losses_left, aum_low, aum_high>>

VARIABLES
    np_random,      \* the state of numpy's global random source
    runs            \* the sampling runs so far: operation, start state, output

rng_vars == <<np_random, runs>>

VARIABLES
    main_outputs,           \* what the main simulation has computed
    portfolio_prices_dict,  \* the keys of the sweep's portfolio series
    metrics_correlations    \* the "Correlation" field of the sweep's metrics rows

output_vars == <<main_outputs, portfolio_prices_dict, metrics_correlations>>

VARIABLES
    analysis_pc,    \* position of the risk-return page: idle, button,
                    \* rpur_sweep, win_rate_sweep, done
    win_rate_value,       \* the sidebar's win rate, in percent
    sweep_pos,      \* position of the running sweep in its range, from 1
    year_calls      \* the simulate_year calls of the pass, in order

analysis_vars == <<analysis_pc, win_rate_value, sweep_pos, year_calls>>

\* the state of the parts added after the first four
other_vars == <<metrics_vars, scenario_vars, rng_vars, output_vars,
                analysis_vars>>

vars == <<sim_vars, dd_vars, repair_vars, page_vars, other_vars>>

NoTrade == [aum |-> RatInt(0), is_win |-> FALSE, rpur |-> RatInt(0),
            risk |-> RatInt(0), result |-> RatInt(0), made |-> FALSE]

(***************************************************************************)
(* TradingSimulator                                                        *)
(***************************************************************************)
TradingSimulator(initial_aum, win_rate, trades_per_year, risk_per_trade) ==
    [initial_aum |-> initial_aum, win_rate |-> win_rate,
     trades_per_year |-> trades_per_year, risk_per_trade |-> risk_per_trade]

\* simulate_trade with the win multiplier dropped
simulate_trade_no_rpur(self, aum, is_win, return_per_unit_risk) ==
    LET risk_amount == RatMul(self.risk_per_trade, aum)
    IN  IF is_win THEN RatAdd(aum, risk_amount) ELSE RatSub(aum, risk_amount)

\* simulate_trade with the loss scaled by the multiplier as the win is
simulate_trade_loss_scaled(self, aum, is_win, return_per_unit_risk) ==
    LET risk_amount == RatMul(self.risk_per_trade, aum)
    IN  IF is_win
        THEN RatAdd(aum, RatMul(risk_amount, return_per_unit_risk))
        ELSE RatSub(aum, RatMul(risk_amount, return_per_unit_risk))

\* simulate_trade with the result floored at zero
simulate_trade_clamped(self, aum, is_win, return_per_unit_risk) ==
    LET risk_amount == RatMul(self.risk_per_trade, aum)
        r == IF is_win
             THEN RatAdd(aum, RatMul(risk_amount, return_per_unit_risk))
             ELSE RatSub(aum, risk_amount)
    IN  IF RatLt(r, RatInt(0)) THEN RatInt(0) ELSE r

\* simulate_trade with the amount at risk taken from the initial AUM
simulate_trade_fixed_risk(self, aum, is_win, return_per_unit_risk) ==
    LET risk_amount == RatMul(self.risk_per_trade, self.initial_aum)
    IN  IF is_win
        THEN RatAdd(aum, RatMul(risk_amount, return_per_unit_risk))
        ELSE RatSub(aum, risk_amount)

simulate_trade(self, aum, is_win, return_per_unit_risk) ==
    LET risk_amount == RatMul(self.risk_per_trade, aum)
    IN  IF is_win
        THEN RatAdd(aum, RatMul(risk_amount, return_per_unit_risk))
        ELSE RatSub(aum, risk_amount)

\* np.random.shuffle: every reordering of the array's elements
Shuffles(s) ==
    {[i \in 1..Len(s) |-> s[p[i]]] : p \in Permutations(1..Len(s))}

TradeRecord(self, aum, is_win, rpur) ==
    [aum |-> aum, is_win |-> is_win, rpur |-> rpur,
     risk |-> self.risk_per_trade,
     result |-> simulate_trade(self, aum, is_win, rpur), made |-> TRUE]

SimInit ==
    /\ \E a \in AumSet, w \in WinRateSet, n \in TradesSet, r \in RiskSet :
          simulator = TradingSimulator(a, w, n, r)
    /\ year_pc = "idle"
    /\ year_args = [return_per_unit_risk |-> RatInt(0), num_simulations |-> 0,
                    win_rate |-> RatInt(0)]
    /\ n_wins = 0
    /\ n_losses = 0
    /\ results = <<>>
    /\ current_aum = RatInt(0)
    /\ outcomes = <<>>
    /\ trade_idx = 0
    /\ last_trade = NoTrade
    /\ calls = 0
    /\ impl \in {"utils", "legacy"}

\* int(self.win_rate * self.trades_per_year)
WinCount(self) == IntOf(RatMul(self.win_rate, RatInt(self.trades_per_year)))

\* the outcome list built from the fields at the start of every trial,
\* whichever module is loaded
TradeOutcomes_reads_fields ==
    Repeat(TRUE, WinCount(simulator))
    \o Repeat(FALSE, simulator.trades_per_year - WinCount(simulator))

\* the unshuffled outcome list of one trial: utils/risk_simulation.py builds it
\* from the locals computed before the loop, the legacy module from the fields
\* as they are when the trial starts
TradeOutcomes ==
    IF impl = "utils"
    THEN Repeat(TRUE, n_wins) \o Repeat(FALSE, n_losses)
    ELSE Repeat(TRUE, WinCount(simulator))
         \o Repeat(FALSE, simulator.trades_per_year - WinCount(simulator))

\* a direct call of simulate_trade by a caller (the unit tests)
CallSimulateTrade ==
    /\ year_pc = "idle"
    /\ \E a \in AumSet \cup {RatInt(-50)}, w \in BOOLEAN, q \in RpurSet :
          last_trade' = TradeRecord(simulator, a, w, q)
    /\ UNCHANGED <<simulator, year_pc, year_args, n_wins, n_losses, results,
                   current_aum, outcomes, trade_idx, calls, impl>>
    /\ UNCHANGED <<dd_vars, repair_vars, page_vars, other_vars>>

\* simulate_year, lines 47-50: the locals before the trial loop
CallSimulateYear ==
    /\ year_pc \in {"idle", "done"}
    /\ calls < MaxCalls
    /\ \E q \in RpurSet, s \in 1..MaxSimulations :
          year_args' = [return_per_unit_risk |-> q, num_simulations |-> s,
                        win_rate |-> simulator.win_rate]
    /\ n_wins' = IF impl = "utils" THEN WinCount(simulator) ELSE 0
    /\ n_losses' = IF impl = "utils"
                   THEN simulator.trades_per_year - n_wins' ELSE 0
    /\ results' = <<>>
    /\ year_pc' = "loop"
    /\ calls' = calls + 1
    /\ UNCHANGED <<simulator, current_aum, outcomes, trade_idx, last_trade,
                   impl>>
    /\ UNCHANGED <<dd_vars, repair_vars, page_vars, other_vars>>

\* lines 51-54: one trial starts, the outcome array is built and shuffled
BeginTrial ==
    /\ year_pc = "loop"
    /\ Len(results) < year_args.num_simulations
    /\ current_aum' = simulator.initial_aum
    /\ outcomes' \in Shuffles(TradeOutcomes)
    /\ trade_idx' = 1
    /\ year_pc' = "trades"
    /\ UNCHANGED <<simulator, year_args, n_wins, n_losses, results,
                   last_trade, calls, impl>>
    /\ UNCHANGED <<dd_vars, repair_vars, page_vars, other_vars>>

\* lines 55-58: one trade of the trial
TradeStep ==
    /\ year_pc = "trades"
    /\ trade_idx <= Len(outcomes)
    /\ last_trade' = TradeRecord(simulator, current_aum, outcomes[trade_idx],
                                 year_args.return_per_unit_risk)
    /\ current_aum' = last_trade'.result
    /\ trade_idx' = trade_idx + 1
    /\ UNCHANGED <<simulator, year_pc, year_args, n_wins, n_losses, results,
                   outcomes, calls, impl>>
    /\ UNCHANGED <<dd_vars, repair_vars, page_vars, other_vars>>

\* line 59 with the trial's final AUM also written to the simulator
EndTrial_compounds ==
    /\ year_pc = "trades"
    /\ trade_idx > Len(outcomes)
    /\ results' = Append(results, current_aum)
    /\ simulator' = [simulator EXCEPT !.initial_aum = current_aum]
    /\ year_pc' = "loop"
    /\ UNCHANGED <<year_args, n_wins, n_losses, current_aum,
                   outcomes, trade_idx, last_trade, calls, impl>>
    /\ UNCHANGED <<dd_vars, repair_vars, page_vars, other_vars>>

\* line 59: the trial's final AUM is appended
EndTrial ==
    /\ year_pc = "trades"
    /\ trade_idx > Len(outcomes)
    /\ results' = Append(results, current_aum)
    /\ year_pc' = "loop"
    /\ UNCHANGED <<simulator, year_args, n_wins, n_losses, current_aum,
                   outcomes, trade_idx, last_trade, calls, impl>>
    /\ UNCHANGED <<dd_vars, repair_vars, page_vars, other_vars>>

\* line 60: return results
ReturnYear ==
    /\ year_pc = "loop"
    /\ Len(results) >= year_args.num_simulations
    /\ year_pc' = "done"
    /\ UNCHANGED <<simulator, year_args, n_wins, n_losses, results,
                   current_aum, outcomes, trade_idx, last_trade, calls, impl>>
    /\ UNCHANGED <<dd_vars, repair_vars, page_vars, other_vars>>

\* a caller assigns simulator.win_rate between calls (the win-rate sweep)
AssignWinRate ==
    /\ year_pc \in {"idle", "done"}
    /\ \E w \in WinRateSet :
          /\ w # simulator.win_rate
          /\ simulator' = [simulator EXCEPT !.win_rate = w]
    /\ UNCHANGED <<year_pc, year_args, n_wins, n_losses, results,
                   current_aum, outcomes, trade_idx, last_trade, calls, impl>>
    /\ UNCHANGED <<dd_vars, repair_vars, page_vars, other_vars>>

\* another caller assigns simulator.win_rate while simulate_year is running
\* (the assignment of the win-rate sweep, made from a parallel caller)
AssignWinRateDuringCall ==
    /\ year_pc \in {"loop", "trades"}
    /\ \E w \in WinRateSet :
          /\ w # simulator.win_rate
          /\ simulator' = [simulator EXCEPT !.win_rate = w]
    /\ UNCHANGED <<year_pc, year_args, n_wins, n_losses, results,
                   current_aum, outcomes, trade_idx, last_trade, calls, impl>>
    /\ UNCHANGED <<dd_vars, repair_vars, page_vars, other_vars>>

SimNext ==
    \/ CallSimulateTrade
    \/ CallSimulateYear
    \/ BeginTrial
    \/ TradeStep
    \/ EndTrial
    \/ ReturnYear
    \/ AssignWinRate


(***************************************************************************)
(* simulate_drawdown                                                       *)
(***************************************************************************)
\* NaN is the fraction 0/0, equal to no number
NaN == <<0, 0>>

\* win_rate in percent, risk_per_trade in percent
DrawdownWinRateSet == {RatInt(0), RatInt(50), RatInt(100)}
DrawdownTradesSet == 0..MaxTrades
DrawdownRiskSet == {RatInt(0), Rat(1, 2), RatInt(2)}
DrawdownSimulationsSet == 0..MaxSimulations

\* the uniform samples in [0, 1) np.random.choice draws, one per trade
UniformSamples == {RatInt(0), Rat(1, 4), Rat(3, 4)}

\* np.random.choice([1, 0], p=[p_win, 1 - p_win]) for one uniform sample u:
\* the cumulative distribution is searched from the right, so the index is
\* the number of its entries that are <= u
\* np.random.choice searching the cumulative distribution from the left
ChoiceSearchLeft(p, u) ==
    LET cdf == <<p, RatAdd(p, RatSub(RatInt(1), p))>>
        idx == Cardinality({i \in 1..2 : RatLt(cdf[i], u)})
    IN  <<1, 0>>[idx + 1]

Choice(p, u) ==
    LET cdf == <<p, RatAdd(p, RatSub(RatInt(1), p))>>
        idx == Cardinality({i \in 1..2 : RatLe(cdf[i], u)})
    IN  <<1, 0>>[idx + 1]

RECURSIVE StreakFrom(_, _, _, _)
StreakFrom(trades, i, max_streak, current_streak) ==
    IF i > Len(trades)
    THEN max_streak
    ELSE IF trades[i] = 0
         THEN StreakFrom(trades, i + 1,
                         IF current_streak + 1 > max_streak
                         THEN current_streak + 1 ELSE max_streak,
                         current_streak + 1)
         ELSE StreakFrom(trades, i + 1, max_streak, 0)

\* _max_consecutive_losses that forgets to restart the streak after a win
max_consecutive_losses_no_reset(trades) ==
    Cardinality({i \in DOMAIN trades : trades[i] = 0})

\* _max_consecutive_losses that counts winning trades
max_consecutive_losses_counts_wins(trades) ==
    StreakFrom([i \in DOMAIN trades |-> 1 - trades[i]], 1, 0, 0)

max_consecutive_losses(trades) == StreakFrom(trades, 1, 0, 0)

RECURSIVE RatSum(_)
RatSum(seq) ==
    IF seq = <<>> THEN RatInt(0) ELSE RatAdd(Head(seq), RatSum(Tail(seq)))

\* np.mean without the division by the number of elements
Mean_no_division(xs) == IF Len(xs) = 0 THEN NaN ELSE RatSum(xs)

\* float(np.mean(xs)): NaN for an empty list
Mean(xs) == IF Len(xs) = 0 THEN NaN ELSE RatDiv(RatSum(xs), RatInt(Len(xs)))

\* pages/1_risk_return_analysis.py, line 225: the Max Drawdown box, computed
\* from the same arguments as simulate_drawdown is called with on line 226
max_drawdown_displayed(nb_trades_per_year, win_rate, risk_per_trade) ==
    RatMul(RatMul(RatInt(nb_trades_per_year),
                  RatSub(RatInt(1), RatDiv(win_rate, RatInt(100)))),
           risk_per_trade)

DrawdownIdle ==
    /\ dd_pc = "idle"
    /\ dd_args = [win_rate |-> RatInt(0), num_trades_per_year |-> 0,
                  risk_per_trade |-> RatInt(0), simulations |-> 0]
    /\ p_win = RatInt(0)
    /\ dd_trades = <<>>
    /\ drawdowns = <<>>
    /\ dd_result = RatInt(0)
    /\ dd_samples = <<>>

\* lines 80 and 94: p_win and the empty list
CallSimulateDrawdown ==
    /\ dd_pc \in {"idle", "done"}
    /\ \E w \in DrawdownWinRateSet, n \in DrawdownTradesSet,
          r \in DrawdownRiskSet, s \in DrawdownSimulationsSet :
          /\ dd_args' = [win_rate |-> w, num_trades_per_year |-> n,
                         risk_per_trade |-> r, simulations |-> s]
          /\ p_win' = RatDiv(w, RatInt(100))
    /\ drawdowns' = <<>>
    /\ dd_trades' = <<>>
    /\ dd_samples' = <<>>
    /\ dd_pc' = "loop"
    /\ UNCHANGED dd_result
    /\ UNCHANGED <<sim_vars, repair_vars, page_vars, other_vars>>

\* line 99 with the risk added to the streak instead of multiplying it
DrawdownTrial_adds_risk ==
    /\ dd_pc = "loop"
    /\ Len(drawdowns) < dd_args.simulations
    /\ \E u \in [1..dd_args.num_trades_per_year -> UniformSamples] :
          dd_trades' = [i \in 1..dd_args.num_trades_per_year |->
                           Choice(p_win, u[i])]
    /\ drawdowns' =
          Append(drawdowns,
                 RatAdd(RatInt(max_consecutive_losses(dd_trades')),
                        dd_args.risk_per_trade))
    /\ dd_samples' = Append(dd_samples, dd_trades')
    /\ UNCHANGED <<dd_pc, dd_args, p_win, dd_result>>
    /\ UNCHANGED <<sim_vars, repair_vars, page_vars, other_vars>>

\* lines 95-99: one trial
DrawdownTrial ==
    /\ dd_pc = "loop"
    /\ Len(drawdowns) < dd_args.simulations
    /\ \E u \in [1..dd_args.num_trades_per_year -> UniformSamples] :
          dd_trades' = [i \in 1..dd_args.num_trades_per_year |->
                           Choice(p_win, u[i])]
    /\ drawdowns' =
          Append(drawdowns,
                 RatMul(RatInt(max_consecutive_losses(dd_trades')),
                        dd_args.risk_per_trade))
    /\ dd_samples' = Append(dd_samples, dd_trades')
    /\ UNCHANGED <<dd_pc, dd_args, p_win, dd_result>>
    /\ UNCHANGED <<sim_vars, repair_vars, page_vars, other_vars>>

\* line 101
ReturnDrawdown ==
    /\ dd_pc = "loop"
    /\ Len(drawdowns) >= dd_args.simulations
    /\ dd_result' = Mean(drawdowns)
    /\ dd_pc' = "done"
    /\ UNCHANGED <<dd_args, p_win, dd_trades, drawdowns, dd_samples>>
    /\ UNCHANGED <<sim_vars, repair_vars, page_vars, other_vars>>

DrawdownNext ==
    \/ CallSimulateDrawdown
    \/ DrawdownTrial
    \/ ReturnDrawdown

(***************************************************************************)
(* Correlation matrices (pages/2_asset_correlation.py).                    *)
(*                                                                         *)
(* A matrix is a sequence of rows.  Eigenvalues are computed exactly for   *)
(* the matrices with one value d on the diagonal and one value c off it,   *)
(* d*I + c*(J - I): every symmetric 2x2 matrix with equal diagonal entries *)
(* and every single-correlation matrix is of this form, and the form is    *)
(* kept by every step of nearest_positive_definite.  Its eigenvalues are   *)
(* d + (n-1)c on the all-ones vector and d - c on its complement.          *)
(***************************************************************************)
CorrSet == {RatInt(-1), Rat(-1, 2), RatInt(0), Rat(1, 2), RatInt(1)}

\* range mode is modelled for the numbers of assets whose random matrices
\* all have the form above
RangeModeAssets == {1, 2}

Transpose(M) == [i \in 1..Len(M) |-> [j \in 1..Len(M) |-> M[j][i]]]

\* (X + Y) without the division by 2
MatSum(X, Y) ==
    [i \in 1..Len(X) |-> [j \in 1..Len(X) |-> RatAdd(X[i][j], Y[i][j])]]

\* (X + Y) / 2
MatAverage(X, Y) ==
    [i \in 1..Len(X) |->
        [j \in 1..Len(X) |-> RatDiv(RatAdd(X[i][j], Y[i][j]), RatInt(2))]]

\* M + np.eye(n) * v
AddToDiagonal(M, v) ==
    [i \in 1..Len(M) |->
        [j \in 1..Len(M) |-> IF i = j THEN RatAdd(M[i][j], v) ELSE M[i][j]]]

\* np.fill_diagonal(M, v)
FillDiagonal(M, v) ==
    [i \in 1..Len(M) |-> [j \in 1..Len(M) |-> IF i = j THEN v ELSE M[i][j]]]

\* np.full((n, n), v)
Full(n, v) == [i \in 1..n |-> [j \in 1..n |-> v]]

IsUniform(M) ==
    \A i, j \in 1..Len(M) :
        M[i][j] = IF i = j THEN M[1][1]
                  ELSE M[1][IF Len(M) > 1 THEN 2 ELSE 1]

OffDiagonal(M) == IF Len(M) > 1 THEN M[1][2] ELSE RatInt(0)

\* the eigenvalue on the all-ones vector and the one on its complement
EigOnes(M) == RatAdd(M[1][1], RatMul(RatInt(Len(M) - 1), OffDiagonal(M)))
EigPerp(M) == RatSub(M[1][1], OffDiagonal(M))

\* np.linalg.eigvals(M), as a set
EigVals(M) == IF Len(M) = 1 THEN {M[1][1]} ELSE {EigOnes(M), EigPerp(M)}

\* np.min(np.real(np.linalg.eigvals(M)))
MinEig(M) == CHOOSE x \in EigVals(M) : \A y \in EigVals(M) : RatLe(x, y)

\* a positive-semidefiniteness test: >= 0 in place of > 0
is_positive_semidefinite(matrix) ==
    \A x \in EigVals(matrix) : RatLe(RatInt(0), x)

is_positive_definite(matrix) == \A x \in EigVals(matrix) : RatLt(RatInt(0), x)

\* _, s, Vh = np.linalg.svd(B); H = Vh.T @ diag(s) @ Vh.  For symmetric B the
\* singular values are the absolute eigenvalues and the rows of Vh are
\* eigenvectors, so H is B with every eigenvalue replaced by its absolute
\* value: |EigOnes| on J/n plus |EigPerp| on I - J/n.
SvdH(B) ==
    LET n == Len(B)
        ones == RatDiv(RatAbs(EigOnes(B)), RatInt(n))
        perp == IF n = 1 THEN RatInt(0) ELSE RatAbs(EigPerp(B))
    IN  [i \in 1..n |->
            [j \in 1..n |->
                RatAdd(ones,
                       RatMul(perp, RatSub(IF i = j THEN RatInt(1) ELSE RatInt(0),
                                           Rat(1, n))))]]

RECURSIVE RatSumSq(_)
RatSumSq(seq) ==
    IF seq = <<>> THEN RatInt(0)
    ELSE RatAdd(RatMul(Head(seq), Head(seq)), RatSumSq(Tail(seq)))

RECURSIVE Flatten(_)
Flatten(M) == IF M = <<>> THEN <<>> ELSE Head(M) \o Flatten(Tail(M))

\* np.linalg.norm(M) ** 2: the sum of the squared entries
NormSquared(M) == RatSumSq(Flatten(M))

Pow2(e) == IF e >= 0 THEN <<2 ^ e, 1>> ELSE <<1, 2 ^ (-e)>>
Pow4(e) == RatMul(Pow2(e), Pow2(e))

RECURSIVE ExponentUp(_, _)
ExponentUp(x2, e) == IF RatLt(x2, Pow4(e + 1)) THEN e ELSE ExponentUp(x2, e + 1)

RECURSIVE ExponentDown(_, _)
ExponentDown(x2, e) == IF RatLe(Pow4(e), x2) THEN e ELSE ExponentDown(x2, e - 1)

\* the binary exponent e of x > 0, 2^e <= x < 2^(e+1), from x squared
Exponent(x2) ==
    IF RatLe(RatInt(1), x2) THEN ExponentUp(x2, 0) ELSE ExponentDown(x2, -1)

\* np.spacing(np.linalg.norm(M)): the gap from the norm to the next float,
\* for a matrix that is not all zeros
Spacing(M) == Pow2(Exponent(NormSquared(M)) - MantissaBits)

\* lines 135-139 of nearest_positive_definite
Projected(M) ==
    LET B == MatAverage(M, Transpose(M))
        H == SvdH(B)
        A2 == MatAverage(B, H)
    IN  MatAverage(A2, Transpose(A2))

\* line 149 without the spacing term
Shift_no_spacing(M, kk, sp) == RatMul(RatNeg(MinEig(M)), RatInt(kk * kk))

\* line 149: -min_eig * k**2 + spacing
Shift(M, kk, sp) == RatAdd(RatMul(RatNeg(MinEig(M)), RatInt(kk * kk)), sp)

\* lines 156 and 158 without np.fill_diagonal
generate_correlation_matrix_no_diagonal(n, corr) == Full(n, corr)

generate_correlation_matrix(n, corr) == FillDiagonal(Full(n, corr), RatInt(1))

\* rng.uniform(low, high): low + (high - low) * u for a uniform sample u
UniformDraws(low, high) ==
    {RatAdd(low, RatMul(RatSub(high, low), u)) : u \in UniformSamples}

\* the matrices generate_random_correlation_matrix can return
generate_random_correlation_matrix(n, min_corr, max_corr) ==
    {FillDiagonal(MatAverage(random_corrs, Transpose(random_corrs)), RatInt(1)) :
        random_corrs \in [1..n -> [1..n -> UniformDraws(min_corr, max_corr)]]}

NoMatrix == <<>>

RepairIdle ==
    /\ A = NoMatrix
    /\ A3 = NoMatrix
    /\ spacing = RatInt(0)
    /\ k = 0
    /\ repair_pc = "idle"
    /\ repair_paths = <<>>
    /\ iterations = 0

\* lines 135-139: B, H, A2, A3
RepairProject ==
    /\ repair_pc = "start"
    /\ A3' = Projected(A)
    /\ repair_pc' = "projected"
    /\ UNCHANGED <<A, spacing, k, repair_paths, iterations>>
    /\ UNCHANGED <<sim_vars, dd_vars, page_vars, other_vars>>

\* lines 141-142
RepairEarlyReturn ==
    /\ repair_pc = "projected"
    /\ is_positive_definite(A3)
    /\ repair_pc' = "returned"
    /\ repair_paths' = Append(repair_paths, "early")
    /\ UNCHANGED <<A, A3, spacing, k, iterations>>
    /\ UNCHANGED <<sim_vars, dd_vars, page_vars, other_vars>>

\* lines 144-146
RepairEnterLoop ==
    /\ repair_pc = "projected"
    /\ ~is_positive_definite(A3)
    /\ spacing' = Spacing(A)
    /\ k' = 1
    /\ repair_pc' = "loop"
    /\ UNCHANGED <<A, A3, repair_paths, iterations>>
    /\ UNCHANGED <<sim_vars, dd_vars, page_vars, other_vars>>

\* lines 147-150: one iteration of the correction loop.  The code has no
\* iteration limit; MaxIterations only keeps the state space finite.
RepairIterate ==
    /\ repair_pc = "loop"
    /\ ~is_positive_definite(A3)
    /\ iterations < MaxIterations
    /\ A3' = AddToDiagonal(A3, Shift(A3, k, spacing))
    /\ k' = k + 1
    /\ iterations' = iterations + 1
    /\ UNCHANGED <<A, spacing, repair_pc, repair_paths>>
    /\ UNCHANGED <<sim_vars, dd_vars, page_vars, other_vars>>

\* lines 147 and 151: the loop condition fails and A3 is returned
RepairLoopExit ==
    /\ repair_pc = "loop"
    /\ is_positive_definite(A3)
    /\ repair_pc' = "returned"
    /\ repair_paths' = Append(repair_paths, "loop")
    /\ UNCHANGED <<A, A3, spacing, k, iterations>>
    /\ UNCHANGED <<sim_vars, dd_vars, page_vars, other_vars>>

\* nearest_positive_definite applied to the matrix it has just returned
RepairAgain ==
    /\ repair_pc = "returned"
    /\ Len(repair_paths) < MaxRepairCalls
    /\ A' = A3
    /\ repair_pc' = "start"
    /\ iterations' = 0
    /\ UNCHANGED <<A3, spacing, k, repair_paths>>
    /\ UNCHANGED <<sim_vars, dd_vars, page_vars, other_vars>>

RepairCorrSet == {Rat(i, 4) : i \in -4..4}
DiagSet == {Rat(1, 2), RatInt(1), RatInt(2)}

\* the symmetric inputs of nearest_positive_definite: the unit-diagonal ones
\* and, for repair of an already positive-definite matrix, other diagonals
RepairInputs ==
    {FillDiagonal(Full(n, c), d) :
        n \in 1..MaxAssets, c \in RepairCorrSet, d \in DiagSet}

\* the random-mean and random-volatility options are modelled for these
\* numbers of assets, in single-correlation mode
RandomizedAssets == {1, 2}

\* mean_daily_return and daily_volatility, lines 108-109, after conversion
MeanDailyReturn == Rat(1, 100)
DailyVolatility == Rat(1, 10)

\* np.arange(-1.0, 1.1, 0.2): -1.0, -0.8, ..., 1.0
correlation_values == [i \in 1..11 |-> Rat(i - 6, 5)]

\* np.diag(v)
Diag(v) ==
    [i \in 1..Len(v) |-> [j \in 1..Len(v) |-> IF i = j THEN v[i] ELSE RatInt(0)]]

RECURSIVE DotFrom(_, _, _, _)
DotFrom(X, Y, ij, m) ==
    IF m = 0 THEN RatInt(0)
    ELSE RatAdd(DotFrom(X, Y, ij, m - 1), RatMul(X[ij[1]][m], Y[m][ij[2]]))

\* X @ Y
MatMul(X, Y) ==
    [i \in 1..Len(X) |-> [j \in 1..Len(X) |-> DotFrom(X, Y, <<i, j>>, Len(X))]]

\* stddev_matrix @ corr_matrix, without the second factor
Covariance_one_sided(volatility, corr) == MatMul(Diag(volatility), corr)

\* lines 183-184 and 355-356: stddev_matrix @ corr_matrix @ stddev_matrix
Covariance(volatility, corr) ==
    MatMul(MatMul(Diag(volatility), corr), Diag(volatility))

\* lines 188 and 360: mean_vector - 0.5 * volatility_vector ** 2
SamplerMean(mean, volatility) ==
    [i \in 1..Len(mean) |->
        RatSub(mean[i], RatMul(Rat(1, 2), RatMul(volatility[i], volatility[i])))]

\* lines 112-124: np.full(num_assets, x), or np.random.uniform between
\* 0.5 x and 1.5 x for every asset
AssetVectors(n, randomize, x) ==
    IF randomize
    THEN [1..n -> UniformDraws(RatMul(Rat(1, 2), x), RatMul(Rat(3, 2), x))]
    ELSE {[i \in 1..n |-> x]}

PageIdle ==
    /\ config = [num_assets |-> 1, corr_type |-> "single",
                 correlation |-> RatInt(0), min_corr |-> RatInt(0),
                 max_corr |-> RatInt(0), randomize_mean |-> FALSE,
                 randomize_volatility |-> FALSE]
    /\ page_pc = "idle"
    /\ corr_matrix = NoMatrix
    /\ sidebar_error = FALSE
    /\ page_error = FALSE
    /\ sampled = [matrix |-> FALSE, log_returns |-> FALSE]
    /\ mean_vector = <<>>
    /\ volatility_vector = <<>>
    /\ cov_matrix = NoMatrix
    /\ sampler_mean = <<>>
    /\ sweep_idx = 0
    /\ skipped_correlations = <<>>

\* the sidebar inputs, lines 24-97; the names a mode does not define are 0
PageConfigs ==
    {[num_assets |-> n, corr_type |-> "single", correlation |-> c,
      min_corr |-> RatInt(0), max_corr |-> RatInt(0),
      randomize_mean |-> rm, randomize_volatility |-> rv] :
        n \in 1..MaxAssets, c \in CorrSet, rm \in BOOLEAN, rv \in BOOLEAN}
    \cup
    {[num_assets |-> n, corr_type |-> "range", correlation |-> RatInt(0),
      min_corr |-> lo, max_corr |-> hi,
      randomize_mean |-> FALSE, randomize_volatility |-> FALSE] :
        n \in RangeModeAssets, lo \in CorrSet, hi \in CorrSet}

\* lines 64-65: the only check of the inputs; the script goes on after it
CheckRange ==
    /\ page_pc = "inputs"
    /\ sidebar_error' = (/\ config.corr_type = "range"
                         /\ RatLt(config.max_corr, config.min_corr))
    /\ page_pc' = "vectors"
    /\ UNCHANGED <<config, corr_matrix, page_error, sampled, mean_vector,
                   volatility_vector, cov_matrix, sampler_mean, sweep_idx,
                   skipped_correlations>>
    /\ UNCHANGED <<sim_vars, dd_vars, repair_vars, other_vars>>

\* lines 112-124: mean_vector and volatility_vector
DrawVectors ==
    /\ page_pc = "vectors"
    /\ mean_vector' \in AssetVectors(config.num_assets, config.randomize_mean,
                                     MeanDailyReturn)
    /\ volatility_vector' \in AssetVectors(config.num_assets,
                                           config.randomize_volatility,
                                           DailyVolatility)
    /\ page_pc' = "build"
    /\ UNCHANGED <<config, corr_matrix, sidebar_error, page_error, sampled,
                   cov_matrix, sampler_mean, sweep_idx, skipped_correlations>>
    /\ UNCHANGED <<sim_vars, dd_vars, repair_vars, other_vars>>

\* lines 154-160
BuildSingle ==
    /\ page_pc = "build"
    /\ config.corr_type = "single"
    /\ corr_matrix' = generate_correlation_matrix(config.num_assets,
                                                  config.correlation)
    /\ page_pc' = "gate"
    /\ UNCHANGED <<config, sidebar_error, page_error, sampled, mean_vector,
                   volatility_vector, cov_matrix, sampler_mean, sweep_idx,
                   skipped_correlations>>
    /\ UNCHANGED <<sim_vars, dd_vars, repair_vars, other_vars>>

\* lines 162-171: the random matrix is drawn and handed to
\* nearest_positive_definite
BuildRandom ==
    /\ page_pc = "build"
    /\ config.corr_type = "range"
    /\ corr_matrix' \in generate_random_correlation_matrix(
                            config.num_assets, config.min_corr, config.max_corr)
    /\ sampled' = [sampled EXCEPT !.matrix = TRUE]
    /\ A' = corr_matrix'
    /\ repair_pc' = "start"
    /\ iterations' = 0
    /\ page_pc' = "repair"
    /\ UNCHANGED <<config, sidebar_error, page_error, mean_vector,
                   volatility_vector, cov_matrix, sampler_mean, sweep_idx,
                   skipped_correlations>>
    /\ UNCHANGED <<A3, spacing, k, repair_paths>>
    /\ UNCHANGED <<sim_vars, dd_vars, other_vars>>

\* rng.uniform(low, high) with high < low: numpy documents the result as
\* undefined, and a Generator may raise ValueError instead of drawing
BuildRandomRaises ==
    /\ page_pc = "build"
    /\ config.corr_type = "range"
    /\ RatLt(config.max_corr, config.min_corr)
    /\ page_pc' = "raised"
    /\ UNCHANGED <<config, corr_matrix, sidebar_error, page_error, sampled,
                   mean_vector, volatility_vector, cov_matrix, sampler_mean,
                   sweep_idx, skipped_correlations>>
    /\ UNCHANGED <<sim_vars, dd_vars, repair_vars, other_vars>>

\* line 171: the repaired matrix is assigned; the locals of
\* nearest_positive_definite are gone
RepairDone ==
    /\ page_pc = "repair"
    /\ repair_pc = "returned"
    /\ corr_matrix' = A3
    /\ A' = NoMatrix
    /\ A3' = NoMatrix
    /\ spacing' = RatInt(0)
    /\ k' = 0
    /\ repair_pc' = "idle"
    /\ repair_paths' = <<>>
    /\ iterations' = 0
    /\ page_pc' = "gate"
    /\ UNCHANGED <<config, sidebar_error, page_error, sampled, mean_vector,
                   volatility_vector, cov_matrix, sampler_mean, sweep_idx,
                   skipped_correlations>>
    /\ UNCHANGED <<sim_vars, dd_vars, other_vars>>

\* lines 174-177: the matrix fails the check, st.error, nothing else runs
GateReject ==
    /\ page_pc = "gate"
    /\ ~is_positive_definite(corr_matrix)
    /\ page_error' = TRUE
    /\ page_pc' = "end"
    /\ UNCHANGED <<config, corr_matrix, sidebar_error, sampled, mean_vector,
                   volatility_vector, cov_matrix, sampler_mean, sweep_idx,
                   skipped_correlations>>
    /\ UNCHANGED <<sim_vars, dd_vars, repair_vars, other_vars>>

\* lines 178-191: the covariance is built and the log returns are drawn
GateAccept ==
    /\ page_pc = "gate"
    /\ is_positive_definite(corr_matrix)
    /\ cov_matrix' = Covariance(volatility_vector, corr_matrix)
    /\ sampler_mean' = SamplerMean(mean_vector, volatility_vector)
    /\ sampled' = [sampled EXCEPT !.log_returns = TRUE]
    /\ page_pc' = "simulated"
    /\ UNCHANGED <<config, corr_matrix, sidebar_error, page_error, mean_vector,
                   volatility_vector, sweep_idx, skipped_correlations>>
    /\ UNCHANGED <<sim_vars, dd_vars, repair_vars, other_vars>>

\* f"{corr:.1f}": the value rounded to one decimal
FormatOneDecimal(x) == Rat((20 * x[1] + x[2]) \div (2 * x[2]), 10)

\* lines 192-339: prices, metrics and charts of the main simulation, then
\* the locals of the correlation sweep
SweepStart ==
    /\ page_pc = "simulated"
    /\ main_outputs' = {"prices", "metrics_df"}
    /\ sweep_idx' = 1
    /\ portfolio_prices_dict' = {}
    /\ skipped_correlations' = <<>>
    /\ metrics_correlations' = <<>>
    /\ page_pc' = "sweep"
    /\ UNCHANGED <<config, corr_matrix, sidebar_error, page_error, sampled,
                   mean_vector, volatility_vector, cov_matrix, sampler_mean>>
    /\ UNCHANGED <<sim_vars, dd_vars, repair_vars, metrics_vars,
                   scenario_vars, rng_vars, analysis_vars>>

\* lines 341-344
SweepBuildSingle ==
    /\ page_pc = "sweep"
    /\ sweep_idx <= Len(correlation_values)
    /\ config.corr_type = "single"
    /\ corr_matrix' = generate_correlation_matrix(config.num_assets,
                                                  correlation_values[sweep_idx])
    /\ page_pc' = "sweep_gate"
    /\ UNCHANGED <<config, sidebar_error, page_error, sampled, mean_vector,
                   volatility_vector, cov_matrix, sampler_mean, sweep_idx,
                   skipped_correlations>>
    /\ UNCHANGED <<sim_vars, dd_vars, repair_vars, other_vars>>

\* lines 341 and 345-347
SweepBuildRandom ==
    /\ page_pc = "sweep"
    /\ sweep_idx <= Len(correlation_values)
    /\ config.corr_type = "range"
    /\ corr_matrix' \in generate_random_correlation_matrix(
                            config.num_assets, config.min_corr, config.max_corr)
    /\ A' = corr_matrix'
    /\ repair_pc' = "start"
    /\ iterations' = 0
    /\ page_pc' = "sweep_repair"
    /\ UNCHANGED <<config, sidebar_error, page_error, sampled, mean_vector,
                   volatility_vector, cov_matrix, sampler_mean, sweep_idx,
                   skipped_correlations>>
    /\ UNCHANGED <<A3, spacing, k, repair_paths>>
    /\ UNCHANGED <<sim_vars, dd_vars, other_vars>>

\* line 347: the repaired matrix is assigned
SweepRepairDone ==
    /\ page_pc = "sweep_repair"
    /\ repair_pc = "returned"
    /\ corr_matrix' = A3
    /\ A' = NoMatrix
    /\ A3' = NoMatrix
    /\ spacing' = RatInt(0)
    /\ k' = 0
    /\ repair_pc' = "idle"
    /\ repair_paths' = <<>>
    /\ iterations' = 0
    /\ page_pc' = "sweep_gate"
    /\ UNCHANGED <<config, sidebar_error, page_error, sampled, mean_vector,
                   volatility_vector, cov_matrix, sampler_mean, sweep_idx,
                   skipped_correlations>>
    /\ UNCHANGED <<sim_vars, dd_vars, other_vars>>

\* lines 350-352: the value is skipped
SweepSkip ==
    /\ page_pc = "sweep_gate"
    /\ ~is_positive_definite(corr_matrix)
    /\ skipped_correlations' =
          Append(skipped_correlations, correlation_values[sweep_idx])
    /\ sweep_idx' = sweep_idx + 1
    /\ page_pc' = "sweep"
    /\ UNCHANGED <<config, corr_matrix, sidebar_error, page_error, sampled,
                   mean_vector, volatility_vector, cov_matrix, sampler_mean>>
    /\ UNCHANGED <<sim_vars, dd_vars, repair_vars, other_vars>>

\* lines 354-363: the covariance is built and the log returns are drawn
SweepSample ==
    /\ page_pc = "sweep_gate"
    /\ is_positive_definite(corr_matrix)
    /\ cov_matrix' = Covariance(volatility_vector, corr_matrix)
    /\ sampler_mean' = SamplerMean(mean_vector, volatility_vector)
    /\ page_pc' = "sweep_sampled"
    /\ UNCHANGED <<config, corr_matrix, sidebar_error, page_error, sampled,
                   mean_vector, volatility_vector, sweep_idx,
                   skipped_correlations>>
    /\ UNCHANGED <<sim_vars, dd_vars, repair_vars, other_vars>>

\* lines 364-380: the portfolio of this correlation value and its metrics
\* row, then the next value
SweepRecord ==
    /\ page_pc = "sweep_sampled"
    /\ portfolio_prices_dict' =
          portfolio_prices_dict
            \cup {FormatOneDecimal(correlation_values[sweep_idx])}
    /\ metrics_correlations' =
          Append(metrics_correlations,
                 FormatOneDecimal(correlation_values[sweep_idx]))
    /\ sweep_idx' = sweep_idx + 1
    /\ page_pc' = "sweep"
    /\ UNCHANGED <<config, corr_matrix, sidebar_error, page_error, sampled,
                   mean_vector, volatility_vector, cov_matrix, sampler_mean,
                   skipped_correlations>>
    /\ UNCHANGED main_outputs
    /\ UNCHANGED <<sim_vars, dd_vars, repair_vars, metrics_vars,
                   scenario_vars, rng_vars, analysis_vars>>

\* line 382 on: the loop is over
SweepEnd ==
    /\ page_pc = "sweep"
    /\ sweep_idx > Len(correlation_values)
    /\ page_pc' = "done"
    /\ UNCHANGED <<config, corr_matrix, sidebar_error, page_error, sampled,
                   mean_vector, volatility_vector, cov_matrix, sampler_mean,
                   sweep_idx, skipped_correlations>>
    /\ UNCHANGED <<sim_vars, dd_vars, repair_vars, other_vars>>

PageInit ==
    /\ config \in PageConfigs
    /\ config.num_assets \notin RandomizedAssets =>
          ~config.randomize_mean /\ ~config.randomize_volatility
    /\ page_pc = "inputs"
    /\ corr_matrix = NoMatrix
    /\ sidebar_error = FALSE
    /\ page_error = FALSE
    /\ sampled = [matrix |-> FALSE, log_returns |-> FALSE]
    /\ mean_vector = <<>>
    /\ volatility_vector = <<>>
    /\ cov_matrix = NoMatrix
    /\ sampler_mean = <<>>
    /\ sweep_idx = 0
    /\ skipped_correlations = <<>>

PageNext ==
    \/ CheckRange
    \/ DrawVectors
    \/ BuildSingle
    \/ BuildRandom
    \/ BuildRandomRaises
    \/ RepairProject
    \/ RepairEarlyReturn
    \/ RepairEnterLoop
    \/ RepairIterate
    \/ RepairLoopExit
    \/ RepairDone
    \/ GateReject
    \/ GateAccept
    \/ SweepStart
    \/ SweepBuildSingle
    \/ SweepBuildRandom
    \/ SweepRepairDone
    \/ SweepSkip
    \/ SweepSample
    \/ SweepRecord
    \/ SweepEnd

(***************************************************************************)
(* calculate_metrics (pages/2_asset_correlation.py, lines 192-269).        *)
(*                                                                         *)
(* A float is an exact fraction, or one of NaN = 0/0, Inf = 1/0 and        *)
(* NegInf = -1/0.  A value under a square root is a pair <<q, m>> for      *)
(* q * sqrt(m), m a square-free positive integer: the volatilities and the *)
(* ratios that divide by them are kept exact in this form.                 *)
(***************************************************************************)
MaxDays == 3
MetricsAssets == {1, 2}

\* the holding period in years, the smallest value of the slider
num_years == 1

Inf == <<1, 0>>
NegInf == <<-1, 0>>

IsFinite(x) == x[2] # 0

\* the daily log returns the sampler may deliver, multiples of 0.7
ReturnSamples == {Rat(-7, 10), RatInt(0), Rat(7, 10)}
RiskFreeRates == {RatInt(0), Rat(1, 100)}

\* np.exp on a multiple of 0.7, with e^0.7 = 2.0138 taken as 2
Exp(x) ==
    LET steps == (10 * x[1]) \div (7 * x[2])
    IN  IF steps >= 0 THEN RatPow(RatInt(2), steps)
        ELSE RatPow(Rat(1, 2), -steps)

\* x / y of two floats, y = 0 included: numpy gives an infinity or NaN
FloatDiv(x, y) ==
    IF ~IsFinite(x) \/ ~IsFinite(y) THEN NaN
    ELSE IF y[1] # 0 THEN RatDiv(x, y)
    ELSE IF x[1] > 0 THEN Inf
    ELSE IF x[1] < 0 THEN NegInf
    ELSE NaN

\* the largest d with d * d dividing n
SquarePart(n) ==
    CHOOSE d \in 1..n :
        /\ n % (d * d) = 0
        /\ \A e \in (d + 1)..n : e * e > n \/ n % (e * e) # 0

\* np.sqrt of a fraction p/q >= 0 in lowest terms:
\* sqrt(p) / sqrt(q) = sp * sqrt(mp * mq) / (sq * mq)
Sqrt(x) ==
    IF ~IsFinite(x) THEN <<NaN, 1>>
    ELSE IF x[1] = 0 THEN <<RatInt(0), 1>>
    ELSE LET sp == SquarePart(x[1])
             sq == SquarePart(x[2])
             mp == x[1] \div (sp * sp)
             mq == x[2] \div (sq * sq)
         IN  <<Rat(sp, sq * mq), mp * mq>>

\* the product of two square-root values
RootMul(a, b) ==
    IF ~IsFinite(a[1]) \/ ~IsFinite(b[1]) THEN <<NaN, 1>>
    ELSE IF a[1][1] = 0 \/ b[1][1] = 0 THEN <<RatInt(0), 1>>
    ELSE LET g == Gcd(a[2], b[2])
         IN  <<RatMul(RatMul(a[1], b[1]), RatInt(g)),
               (a[2] \div g) * (b[2] \div g)>>

\* x / r for a float x and a square-root value r
RootDiv(x, r) ==
    IF r[1][2] # 0 /\ r[1][1] # 0 /\ IsFinite(x)
    THEN <<RatDiv(x, RatMul(r[1], RatInt(r[2]))), r[2]>>
    ELSE <<FloatDiv(x, r[1]), 1>>

\* np.sqrt(trading_days_per_year) = sqrt(252) = 6 * sqrt(7)
SqrtTradingDays == Sqrt(RatInt(252))

Column(df, j) == [i \in 1..Len(df) |-> df[i][j]]

\* Series.mean()
SeriesMean(xs) ==
    IF Len(xs) = 0 THEN NaN ELSE RatDiv(RatSum(xs), RatInt(Len(xs)))

\* df.mean(axis=1)
RowMeans(df) == [i \in 1..Len(df) |-> SeriesMean(df[i])]

RECURSIVE CumSum(_, _)
CumSum(xs, i) == IF i = 0 THEN RatInt(0) ELSE RatAdd(CumSum(xs, i - 1), xs[i])

RECURSIVE CumMax(_, _)
CumMax(xs, i) ==
    IF i = 1 THEN xs[1]
    ELSE LET m == CumMax(xs, i - 1)
         IN  IF RatLt(m, xs[i]) THEN xs[i] ELSE m

\* Series.max()
SeriesMax(xs) == CumMax(xs, Len(xs))

\* Series.std(), with ddof = 1: NaN for fewer than two values
SeriesStd(xs) ==
    IF Len(xs) < 2 THEN <<NaN, 1>>
    ELSE LET mean == SeriesMean(xs)
             squares == [i \in 1..Len(xs) |->
                            RatMul(RatSub(xs[i], mean), RatSub(xs[i], mean))]
         IN  Sqrt(RatDiv(RatSum(squares), RatInt(Len(xs) - 1)))

\* returns[returns <= 0]
DownsideReturns_with_zero(returns) ==
    SelectSeq(returns, LAMBDA r : RatLe(r, RatInt(0)))

\* line 233: returns[returns < target_return], target_return = 0
DownsideReturns(returns) ==
    SelectSeq(returns, LAMBDA r : RatLt(r, RatInt(0)))

\* line 228: ((prices.cummax() - prices) / prices.cummax()).max()
MaxDrawdown(series) ==
    SeriesMax([i \in 1..Len(series) |->
                  RatDiv(RatSub(CumMax(series, i), series[i]),
                         CumMax(series, i))])

\* lines 223-253
calculate_metrics(series, returns, rf) ==
    LET total_return ==
            RatSub(RatDiv(series[Len(series)], series[1]), RatInt(1))
        \* (1 + total_return) ** (1 / num_years) - 1, the exponent being 1
        annualized_return ==
            RatSub(RatPow(RatAdd(RatInt(1), total_return), 1 \div num_years),
                   RatInt(1))
        annualized_volatility == RootMul(SeriesStd(returns), SqrtTradingDays)
        max_drawdown == MaxDrawdown(series)
        sharpe_ratio ==
            RootDiv(RatSub(annualized_return, rf), annualized_volatility)
        downside_returns == DownsideReturns(returns)
        downside_deviation ==
            RootMul(Sqrt(SeriesMean([i \in 1..Len(downside_returns) |->
                                        RatMul(downside_returns[i],
                                               downside_returns[i])])),
                    SqrtTradingDays)
        sortino_ratio ==
            IF Len(downside_returns) > 0
            THEN RootDiv(RatSub(annualized_return, rf), downside_deviation)
            ELSE <<NaN, 1>>
        calmar_ratio == FloatDiv(annualized_return, max_drawdown)
    IN  [total_return |-> total_return,
         annualized_return |-> annualized_return,
         annualized_volatility |-> annualized_volatility,
         max_drawdown |-> max_drawdown,
         sharpe_ratio |-> sharpe_ratio,
         sortino_ratio |-> sortino_ratio,
         calmar_ratio |-> calmar_ratio]

MetricsIdle ==
    /\ log_returns = <<>>
    /\ prices = <<>>
    /\ portfolio = <<>>
    /\ risk_free_rate = RatInt(0)
    /\ metrics_data = <<>>
    /\ metrics_pc = "idle"

\* lines 84 and 187-194: the risk-free rate and the sampled log returns
MetricsInit ==
    /\ \E days \in 1..MaxDays, n \in MetricsAssets :
          log_returns \in [1..days -> [1..n -> ReturnSamples]]
    /\ risk_free_rate \in RiskFreeRates
    /\ prices = <<>>
    /\ portfolio = <<>>
    /\ metrics_data = <<>>
    /\ metrics_pc = "sampled"

\* lines 197-202: prices = 100 * exp(cumsum), portfolio = the row means
ComputePrices ==
    /\ metrics_pc = "sampled"
    /\ prices' = [i \in 1..Len(log_returns) |->
                    [j \in 1..Len(log_returns[1]) |->
                        RatMul(Exp(CumSum(Column(log_returns, j), i)),
                               RatInt(100))]]
    /\ portfolio' = RowMeans(prices')
    /\ metrics_pc' = "assets"
    /\ UNCHANGED <<log_returns, risk_free_rate, metrics_data>>
    /\ UNCHANGED <<sim_vars, dd_vars, repair_vars, page_vars, scenario_vars,
                   rng_vars, output_vars, analysis_vars>>

\* lines 257-262: the metrics of the next asset column
AssetMetrics ==
    /\ metrics_pc = "assets"
    /\ Len(metrics_data) < Len(log_returns[1])
    /\ LET column == Len(metrics_data) + 1
       IN  metrics_data' =
               Append(metrics_data,
                      calculate_metrics(Column(prices, column),
                                        Column(log_returns, column),
                                        risk_free_rate))
    /\ UNCHANGED <<log_returns, prices, portfolio, risk_free_rate, metrics_pc>>
    /\ UNCHANGED <<sim_vars, dd_vars, repair_vars, page_vars, scenario_vars,
                   rng_vars, output_vars, analysis_vars>>

\* lines 264-269: the metrics of the portfolio
PortfolioMetrics ==
    /\ metrics_pc = "assets"
    /\ Len(metrics_data) = Len(log_returns[1])
    /\ metrics_data' =
          Append(metrics_data,
                 calculate_metrics(portfolio, RowMeans(log_returns),
                                   risk_free_rate))
    /\ metrics_pc' = "done"
    /\ UNCHANGED <<log_returns, prices, portfolio, risk_free_rate>>
    /\ UNCHANGED <<sim_vars, dd_vars, repair_vars, page_vars, scenario_vars,
                   rng_vars, output_vars, analysis_vars>>

MetricsNext ==
    \/ ComputePrices
    \/ AssetMetrics
    \/ PortfolioMetrics

(***************************************************************************)
(* The statistical-mean scenario of simulate_year                          *)
(* (tests/test_risk_simulation.py, lines 82-94).                           *)
(*                                                                         *)
(* One trial of simulate_year with the scenario's arguments.  The shuffled *)
(* outcome array is read one outcome at a time, so every order of the      *)
(* wins and losses is a behaviour.  current_aum is kept as two integers,   *)
(* in cents, that bound it from below and above: every trade rounds the    *)
(* lower bound down and the upper bound up by a further cent, which is     *)
(* more than the rounding of the float operations.                         *)
(***************************************************************************)
ScenarioInitialAum == 100000
ScenarioTrades == 20
ScenarioSimulations == 5000
ScenarioLowerBound == 110000
ScenarioUpperBound == 135000
ScenarioWinRate == Rat(1, 2)
ScenarioRisk == Rat(1, 100)
ScenarioRpur == RatInt(3)

CentsPerUnit == 100

\* the factor of one trade without the win multiplier
TradeFactor_no_rpur(is_win) ==
    IF is_win THEN RatAdd(RatInt(1), ScenarioRisk)
    ELSE RatSub(RatInt(1), ScenarioRisk)

\* simulate_trade, lines 34-37: current_aum + risk * current_aum * rpur for
\* a win and current_aum - risk * current_aum for a loss, as one factor
TradeFactor(is_win) ==
    IF is_win THEN RatAdd(RatInt(1), RatMul(ScenarioRisk, ScenarioRpur))
    ELSE RatSub(RatInt(1), ScenarioRisk)

\* bounds in cents on the AUM after a trade from an AUM within those bounds
TradeLow(cents, is_win) ==
    ((cents * TradeFactor(is_win)[1]) \div TradeFactor(is_win)[2]) - 1

TradeHigh(cents, is_win) ==
    ((cents * TradeFactor(is_win)[1]) \div TradeFactor(is_win)[2]) + 2

ScenarioIdle ==
    /\ scenario_pc = "idle"
    /\ wins_left = 0
    /\ losses_left = 0
    /\ aum_low = 0
    /\ aum_high = 0

\* simulate_year is entered with num_simulations = ScenarioSimulations
ScenarioInit ==
    /\ scenario_pc = "loop"
    /\ wins_left = 0
    /\ losses_left = 0
    /\ aum_low = 0
    /\ aum_high = 0

\* lines 47-48 and 51-54: a trial starts with n_wins wins and n_losses
\* losses in the shuffled array
ScenarioBeginTrial ==
    /\ scenario_pc \in {"loop", "appended"}
    /\ ScenarioSimulations > 0
    /\ wins_left' = IntOf(RatMul(ScenarioWinRate, RatInt(ScenarioTrades)))
    /\ losses_left' = ScenarioTrades - wins_left'
    /\ aum_low' = ScenarioInitialAum * CentsPerUnit
    /\ aum_high' = ScenarioInitialAum * CentsPerUnit
    /\ scenario_pc' = "trades"
    /\ UNCHANGED <<sim_vars, dd_vars, repair_vars, page_vars, metrics_vars,
                   rng_vars, output_vars, analysis_vars>>

\* lines 55-58: the next outcome of the shuffled array is a win
ScenarioWin ==
    /\ scenario_pc = "trades"
    /\ wins_left > 0
    /\ wins_left' = wins_left - 1
    /\ aum_low' = TradeLow(aum_low, TRUE)
    /\ aum_high' = TradeHigh(aum_high, TRUE)
    /\ UNCHANGED <<scenario_pc, losses_left>>
    /\ UNCHANGED <<sim_vars, dd_vars, repair_vars, page_vars, metrics_vars,
                   rng_vars, output_vars, analysis_vars>>

\* lines 55-58: the next outcome of the shuffled array is a loss
ScenarioLoss ==
    /\ scenario_pc = "trades"
    /\ losses_left > 0
    /\ losses_left' = losses_left - 1
    /\ aum_low' = TradeLow(aum_low, FALSE)
    /\ aum_high' = TradeHigh(aum_high, FALSE)
    /\ UNCHANGED <<scenario_pc, wins_left>>
    /\ UNCHANGED <<sim_vars, dd_vars, repair_vars, page_vars, metrics_vars,
                   rng_vars, output_vars, analysis_vars>>

\* line 59: results.append(current_aum)
ScenarioEndTrial ==
    /\ scenario_pc = "trades"
    /\ wins_left = 0
    /\ losses_left = 0
    /\ scenario_pc' = "appended"
    /\ UNCHANGED <<wins_left, losses_left, aum_low, aum_high>>
    /\ UNCHANGED <<sim_vars, dd_vars, repair_vars, page_vars, metrics_vars,
                   rng_vars, output_vars, analysis_vars>>

ScenarioNext ==
    \/ ScenarioBeginTrial
    \/ ScenarioWin
    \/ ScenarioLoss
    \/ ScenarioEndTrial

(***************************************************************************)
(* The random sources.                                                     *)
(*                                                                         *)
(* np.random.shuffle, np.random.choice and np.random.multivariate_normal   *)
(* read numpy's global random source, which np.random.seed sets; their     *)
(* output is a function of its state.  np.random.default_rng() without a   *)
(* seed builds a new generator from the operating system's entropy.        *)
(***************************************************************************)
RngStates == 4
MaxRuns == 2

\* the next state of the generator, a stand-in for the Mersenne Twister step
RngNext(state) == (state + 1) % RngStates

\* the uniform sample a state yields
RngUniform(state) == Rat(state, RngStates)

Run(op, start, output) == [op |-> op, start |-> start, output |-> output]

RngIdle ==
    /\ np_random = 0
    /\ runs = <<>>

RngInit ==
    /\ np_random \in 0..(RngStates - 1)
    /\ runs = <<>>

\* np.random.seed(seed)
NpRandomSeed ==
    /\ \E seed \in 0..(RngStates - 1) :
          /\ seed # np_random
          /\ np_random' = seed
    /\ UNCHANGED runs
    /\ UNCHANGED <<sim_vars, dd_vars, repair_vars, page_vars, metrics_vars,
                   scenario_vars, output_vars, analysis_vars>>

\* simulate_year, risk_simulation.py line 54: np.random.shuffle
RunSimulateYear ==
    /\ Len(runs) < MaxRuns
    /\ runs' = Append(runs, Run("simulate_year", np_random,
                                RngUniform(np_random)))
    /\ np_random' = RngNext(np_random)
    /\ UNCHANGED <<sim_vars, dd_vars, repair_vars, page_vars, metrics_vars,
                   scenario_vars, output_vars, analysis_vars>>

\* simulate_drawdown, risk_simulation.py lines 96-98: np.random.choice
RunSimulateDrawdown ==
    /\ Len(runs) < MaxRuns
    /\ runs' = Append(runs, Run("simulate_drawdown", np_random,
                                RngUniform(np_random)))
    /\ np_random' = RngNext(np_random)
    /\ UNCHANGED <<sim_vars, dd_vars, repair_vars, page_vars, metrics_vars,
                   scenario_vars, output_vars, analysis_vars>>

\* the log-return draw, lines 187-191: np.random.multivariate_normal
RunLogReturns ==
    /\ Len(runs) < MaxRuns
    /\ runs' = Append(runs, Run("log_returns", np_random,
                                RngUniform(np_random)))
    /\ np_random' = RngNext(np_random)
    /\ UNCHANGED <<sim_vars, dd_vars, repair_vars, page_vars, metrics_vars,
                   scenario_vars, output_vars, analysis_vars>>

\* generate_random_correlation_matrix, lines 164-165: a new generator from
\* np.random.default_rng(), whatever the global source holds
RunRandomMatrix ==
    /\ Len(runs) < MaxRuns
    /\ \E entropy \in 0..(RngStates - 1) :
          runs' = Append(runs, Run("generate_random_correlation_matrix",
                                   np_random, RngUniform(entropy)))
    /\ UNCHANGED np_random
    /\ UNCHANGED <<sim_vars, dd_vars, repair_vars, page_vars, metrics_vars,
                   scenario_vars, output_vars, analysis_vars>>

SeedNext ==
    \/ NpRandomSeed
    \/ RunSimulateYear
    \/ RunSimulateDrawdown
    \/ RunLogReturns
    \/ RunRandomMatrix

\* the parts added after the first four, not running
(***************************************************************************)
(* The "Run Simulation" pass of pages/1_risk_return_analysis.py.           *)
(***************************************************************************)
\* the win-rate slider of config/slider_configs.py: 28.0 to 72.0 in steps of 2.0
WinRateSlider == {RatInt(26 + 2 * i) : i \in 1..23}

\* nb_trades_per_year of the sidebar: the slider's lowest and default values
AnalysisTradesSet == {5, 30}

\* np.linspace(0.5, 8.0, num=16): 0.5, 1.0, ..., 8.0
rpur_range == [i \in 1..16 |-> Rat(i, 2)]

\* np.arange(28.0, 72.0 + 1, 2): 28, 30, ..., 72
win_rates == [i \in 1..23 |-> RatInt(26 + 2 * i)]

\* return_per_unit_risk_value of the sidebar: the slider's default
return_per_unit_risk_value == RatInt(3)

\* a simulate_year call: what it is given and the fields it reads at line 47
YearCall(sweep, rpur) ==
    [sweep |-> sweep, return_per_unit_risk |-> rpur,
     win_rate |-> simulator.win_rate, n_wins |-> WinCount(simulator)]

AnalysisIdle ==
    /\ analysis_pc = "idle"
    /\ win_rate_value = RatInt(0)
    /\ sweep_pos = 0
    /\ year_calls = <<>>

\* lines 197-223: the sidebar inputs and the simulator built from them
AnalysisInit ==
    /\ win_rate_value \in WinRateSlider
    /\ \E nb_trades_per_year \in AnalysisTradesSet :
          simulator = TradingSimulator(RatInt(100000),
                                       RatDiv(win_rate_value, RatInt(100)),
                                       nb_trades_per_year, Rat(1, 100))
    /\ year_pc = "idle"
    /\ year_args = [return_per_unit_risk |-> RatInt(0), num_simulations |-> 0,
                    win_rate |-> RatInt(0)]
    /\ n_wins = 0
    /\ n_losses = 0
    /\ results = <<>>
    /\ current_aum = RatInt(0)
    /\ outcomes = <<>>
    /\ trade_idx = 0
    /\ last_trade = NoTrade
    /\ calls = 0
    /\ impl = "utils"
    /\ analysis_pc = "button"
    /\ sweep_pos = 0
    /\ year_calls = <<>>

\* lines 246-249: the button is pressed, results and rpur_range are created
RunSimulation ==
    /\ analysis_pc = "button"
    /\ analysis_pc' = "rpur_sweep"
    /\ sweep_pos' = 1
    /\ UNCHANGED <<win_rate_value, year_calls>>
    /\ UNCHANGED <<sim_vars, dd_vars, repair_vars, page_vars, metrics_vars,
                   scenario_vars, rng_vars, output_vars>>

\* lines 250-254: one simulate_year call of the RPUR sweep
RpurSweepCall ==
    /\ analysis_pc = "rpur_sweep"
    /\ sweep_pos <= Len(rpur_range)
    /\ year_calls' = Append(year_calls, YearCall("rpur", rpur_range[sweep_pos]))
    /\ sweep_pos' = sweep_pos + 1
    /\ UNCHANGED <<analysis_pc, win_rate_value>>
    /\ UNCHANGED <<sim_vars, dd_vars, repair_vars, page_vars, metrics_vars,
                   scenario_vars, rng_vars, output_vars>>

\* lines 256-265 and 110-115: the first chart, then
\* create_win_rate_vs_return_chart is entered
RpurSweepEnd ==
    /\ analysis_pc = "rpur_sweep"
    /\ sweep_pos > Len(rpur_range)
    /\ analysis_pc' = "win_rate_sweep"
    /\ sweep_pos' = 1
    /\ UNCHANGED <<win_rate_value, year_calls>>
    /\ UNCHANGED <<sim_vars, dd_vars, repair_vars, page_vars, metrics_vars,
                   scenario_vars, rng_vars, output_vars>>

\* lines 117-121: simulator.win_rate is assigned, then simulate_year is called
WinRateSweepCall ==
    /\ analysis_pc = "win_rate_sweep"
    /\ sweep_pos <= Len(win_rates)
    /\ simulator' = [simulator EXCEPT
                        !.win_rate = RatDiv(win_rates[sweep_pos], RatInt(100))]
    /\ year_calls' =
          Append(year_calls,
                 [sweep |-> "win_rate",
                  return_per_unit_risk |-> return_per_unit_risk_value,
                  win_rate |-> simulator'.win_rate,
                  n_wins |-> WinCount(simulator')])
    /\ sweep_pos' = sweep_pos + 1
    /\ UNCHANGED <<analysis_pc, win_rate_value>>
    /\ UNCHANGED <<year_pc, year_args, n_wins, n_losses, results, current_aum,
                   outcomes, trade_idx, last_trade, calls, impl>>
    /\ UNCHANGED <<dd_vars, repair_vars, page_vars, metrics_vars,
                   scenario_vars, rng_vars, output_vars>>

\* the end of create_win_rate_vs_return_chart with the user's win rate
\* written back to the simulator
WinRateSweepEnd_restores ==
    /\ analysis_pc = "win_rate_sweep"
    /\ sweep_pos > Len(win_rates)
    /\ simulator' = [simulator EXCEPT
                        !.win_rate = RatDiv(win_rate_value, RatInt(100))]
    /\ analysis_pc' = "done"
    /\ UNCHANGED <<win_rate_value, sweep_pos, year_calls>>
    /\ UNCHANGED <<year_pc, year_args, n_wins, n_losses, results, current_aum,
                   outcomes, trade_idx, last_trade, calls, impl>>
    /\ UNCHANGED <<dd_vars, repair_vars, page_vars, metrics_vars,
                   scenario_vars, rng_vars, output_vars>>

\* lines 123-175 and 266: the chart is built and shown
WinRateSweepEnd ==
    /\ analysis_pc = "win_rate_sweep"
    /\ sweep_pos > Len(win_rates)
    /\ analysis_pc' = "done"
    /\ UNCHANGED <<win_rate_value, sweep_pos, year_calls>>
    /\ UNCHANGED <<sim_vars, dd_vars, repair_vars, page_vars, metrics_vars,
                   scenario_vars, rng_vars, output_vars>>

AnalysisNext ==
    \/ RunSimulation
    \/ RpurSweepCall
    \/ RpurSweepEnd
    \/ WinRateSweepCall
    \/ WinRateSweepEnd

OutputsIdle ==
    /\ main_outputs = {}
    /\ portfolio_prices_dict = {}
    /\ metrics_correlations = <<>>

OtherIdle ==
    MetricsIdle /\ ScenarioIdle /\ RngIdle /\ OutputsIdle /\ AnalysisIdle

(***************************************************************************)
(* Specifications: one per part of the program, the other parts idle.      *)
(***************************************************************************)
\* the simulator while another part of the program runs: constructed, idle
SimIdle ==
    /\ simulator = TradingSimulator(RatInt(100), Rat(1, 2), 0, RatInt(0))
    /\ year_pc = "idle"
    /\ year_args = [return_per_unit_risk |-> RatInt(0), num_simulations |-> 0,
                    win_rate |-> RatInt(0)]
    /\ n_wins = 0
    /\ n_losses = 0
    /\ results = <<>>
    /\ current_aum = RatInt(0)
    /\ outcomes = <<>>
    /\ trade_idx = 0
    /\ last_trade = NoTrade
    /\ calls = 0
    /\ impl = "utils"

\* TradingSimulator and its callers
Init == SimInit /\ DrawdownIdle /\ RepairIdle /\ PageIdle /\ OtherIdle

Spec == Init /\ [][SimNext]_vars

\* simulate_year with a parallel caller that assigns win_rate at any moment
ConcurrentNext ==
    \/ CallSimulateYear
    \/ BeginTrial
    \/ TradeStep
    \/ EndTrial
    \/ ReturnYear
    \/ AssignWinRate
    \/ AssignWinRateDuringCall

\* the size of a trade plays no part in the composition of the outcomes:
\* one risk_per_trade
ConcurrentInit == Init /\ simulator.risk_per_trade = Rat(1, 10)

ConcurrentSpec == ConcurrentInit /\ [][ConcurrentNext]_vars

\* simulate_drawdown called on its own
DrawdownInit ==
    SimIdle /\ DrawdownIdle /\ RepairIdle /\ PageIdle /\ OtherIdle

DrawdownSpec == DrawdownInit /\ [][DrawdownNext]_vars


RepairInit ==
    /\ SimIdle
    /\ OtherIdle
    /\ DrawdownIdle
    /\ PageIdle
    /\ A \in RepairInputs
    /\ A3 = NoMatrix
    /\ spacing = RatInt(0)
    /\ k = 0
    /\ repair_pc = "start"
    /\ repair_paths = <<>>
    /\ iterations = 0

RepairNext ==
    \/ RepairProject
    \/ RepairEarlyReturn
    \/ RepairEnterLoop
    \/ RepairIterate
    \/ RepairLoopExit
    \/ RepairAgain

\* nearest_positive_definite called on its own
RepairSpec == RepairInit /\ [][RepairNext]_vars

\* the control flow of a running call of nearest_positive_definite: lines
\* 135-139, the test of line 141, the loop test of line 147 and its body
RepairRuns ==
    \/ /\ repair_pc = "start"
       /\ repair_pc' = "projected"
       /\ iterations' = iterations
    \/ /\ repair_pc = "projected"
       /\ repair_pc' \in {"returned", "loop"}
       /\ iterations' = iterations
    \/ /\ repair_pc = "loop"
       /\ is_positive_definite(A3)
       /\ repair_pc' = "returned"
       /\ iterations' = iterations
    \/ /\ repair_pc = "loop"
       /\ ~is_positive_definite(A3)
       /\ iterations < MaxIterations
       /\ repair_pc' = "loop"
       /\ iterations' = iterations + 1

\* nearest_positive_definite runs to its return: a call that can take a step
\* takes it (the interpreter does not stop inside a synchronous call)
RepairLiveSpec ==
    RepairInit /\ [][RepairNext]_vars /\ WF_<<repair_pc, iterations>>(RepairRuns)

\* one run of the asset-correlation page script
PageSpecInit ==
    SimIdle /\ DrawdownIdle /\ RepairIdle /\ PageInit /\ OtherIdle

PageSpec == PageSpecInit /\ [][PageNext]_vars

\* the parts of the first four specifications, not running
FirstIdle == SimIdle /\ DrawdownIdle /\ RepairIdle /\ PageIdle

\* calculate_metrics on the columns of one sampled frame
MetricsSpecInit ==
    FirstIdle /\ MetricsInit /\ ScenarioIdle /\ RngIdle /\ OutputsIdle
    /\ AnalysisIdle

MetricsSpec == MetricsSpecInit /\ [][MetricsNext]_vars

\* simulate_year with the arguments of the statistical-mean scenario
ScenarioSpecInit ==
    FirstIdle /\ MetricsIdle /\ ScenarioInit /\ RngIdle /\ OutputsIdle
    /\ AnalysisIdle

ScenarioSpec == ScenarioSpecInit /\ [][ScenarioNext]_vars

\* sampling runs and seedings of the global random source
SeedSpecInit ==
    FirstIdle /\ MetricsIdle /\ ScenarioIdle /\ RngInit /\ OutputsIdle
    /\ AnalysisIdle

SeedSpec == SeedSpecInit /\ [][SeedNext]_vars

\* one "Run Simulation" pass of the risk-return page
AnalysisSpecInit ==
    /\ AnalysisInit
    /\ DrawdownIdle /\ RepairIdle /\ PageIdle
    /\ MetricsIdle /\ ScenarioIdle /\ RngIdle /\ OutputsIdle

AnalysisSpec == AnalysisSpecInit /\ [][AnalysisNext]_vars

(***************************************************************************)
(* Claims about TradingSimulator (specification Spec).                     *)
(***************************************************************************)
Wins(s) == Cardinality({i \in DOMAIN s : s[i]})
Losses(s) == Cardinality({i \in DOMAIN s : ~s[i]})
Floor(a) == a[1] \div a[2]
One == RatInt(1)

\* C1: with win_rate = 1.0 at the call, every element simulate_year returns
\* equals initial_aum * (1 + risk_per_trade * return_per_unit_risk)^n, where
\* n = trades_per_year; so all elements are identical.
C1_AllWinsClosedForm ==
    (year_pc = "done" /\ year_args.win_rate = One) =>
        /\ Len(results) = year_args.num_simulations
        /\ \A i \in 1..Len(results) :
              results[i] =
                RatMul(simulator.initial_aum,
                       RatPow(RatAdd(One, RatMul(simulator.risk_per_trade,
                                     year_args.return_per_unit_risk)),
                              simulator.trades_per_year))

C1_Witness ==
    /\ year_pc = "done"
    /\ year_args.win_rate = One
    /\ simulator.trades_per_year >= 2
    /\ Len(results) >= 2
    /\ simulator.risk_per_trade = Rat(1, 10)
    /\ year_args.return_per_unit_risk = RatInt(2)
    /\ results[1] = Rat(144, 1)

\* C2: with win_rate = 0.0 at the call, every element simulate_year returns
\* equals initial_aum * (1 - risk_per_trade)^n, whatever return_per_unit_risk.
C2_AllLossesClosedForm ==
    (year_pc = "done" /\ year_args.win_rate = RatInt(0)) =>
        /\ Len(results) = year_args.num_simulations
        /\ \A i \in 1..Len(results) :
              results[i] =
                RatMul(simulator.initial_aum,
                       RatPow(RatSub(One, simulator.risk_per_trade),
                              simulator.trades_per_year))

C2_Witness ==
    /\ year_pc = "done"
    /\ year_args.win_rate = RatInt(0)
    /\ simulator.trades_per_year >= 2
    /\ Len(results) >= 2
    /\ simulator.risk_per_trade = Rat(1, 10)
    /\ year_args.return_per_unit_risk = RatInt(2)
    /\ results[1] = Rat(81, 1)

\* C3: in every trial, for a win rate in [0,1] and trades_per_year > 0, the
\* outcome sequence has exactly trades_per_year elements, of which
\* floor(win_rate * trades_per_year) are wins and the rest losses.
C3_OutcomeComposition ==
    (/\ year_pc = "trades"
     /\ simulator.trades_per_year > 0
     /\ RatLe(RatInt(0), year_args.win_rate)
     /\ RatLe(year_args.win_rate, One)) =>
        /\ Len(outcomes) = simulator.trades_per_year
        /\ Wins(outcomes) =
             Floor(RatMul(year_args.win_rate,
                          RatInt(simulator.trades_per_year)))
        /\ Losses(outcomes) = simulator.trades_per_year - Wins(outcomes)

\* a trial of three trades at win rate 1/2: one win, placed after a loss
C3_Witness ==
    /\ year_pc = "trades"
    /\ simulator.trades_per_year = 3
    /\ year_args.win_rate = Rat(1, 2)
    /\ Len(results) >= 1
    /\ outcomes = <<FALSE, TRUE, FALSE>>

\* C4: simulate_trade returns current_aum + risk_per_trade * current_aum * rpur
\* on a win and current_aum - risk_per_trade * current_aum on a loss, without
\* clamping; with risk_per_trade = 0 it returns current_aum.  The equalities
\* are stated on numerators and denominators.
C4_TradeFormula ==
    last_trade.made =>
        LET a == last_trade.aum
            r == last_trade.risk
            q == last_trade.rpur
            x == last_trade.result
        IN  /\ last_trade.is_win =>
                 x[1] * (a[2] * r[2] * q[2])
                   = x[2] * (a[1] * r[2] * q[2] + r[1] * a[1] * q[1])
            /\ ~last_trade.is_win =>
                 x[1] * (a[2] * r[2]) = x[2] * (a[1] * r[2] - r[1] * a[1])
            /\ r = RatInt(0) => x = a

\* a loss at risk_per_trade = 3/2 takes a positive AUM below zero
C4_Witness ==
    /\ last_trade.made
    /\ ~last_trade.is_win
    /\ last_trade.risk = Rat(3, 2)
    /\ last_trade.aum = RatInt(100)
    /\ last_trade.result = RatInt(-50)

(***************************************************************************)
(* Claims about simulate_drawdown (specification DrawdownSpec).            *)
(***************************************************************************)
\* C5 as stated: simulate_drawdown(100, n, r, s) returns exactly 0.0 for any
\* number of trades n >= 0, any r and any s.
C5_ZeroDrawdownAnyInput ==
    (dd_pc = "done" /\ dd_args.win_rate = RatInt(100)) =>
        dd_result = RatInt(0)

\* C5 amended: simulate_drawdown(100, n, r, s) returns exactly 0.0 for any
\* n >= 0, any r and any s >= 1.
C5_ZeroDrawdown ==
    (/\ dd_pc = "done"
     /\ dd_args.win_rate = RatInt(100)
     /\ dd_args.simulations >= 1) =>
        dd_result = RatInt(0)

C5_Witness ==
    /\ dd_pc = "done"
    /\ dd_args.win_rate = RatInt(100)
    /\ dd_args.num_trades_per_year = 3
    /\ dd_args.risk_per_trade = RatInt(2)
    /\ dd_args.simulations = 2
    /\ dd_trades = <<1, 1, 1>>
    /\ dd_result = RatInt(0)

\* C6 as stated: simulate_drawdown(0, n, r, s) returns exactly n * r for any
\* number of trades n >= 0, any r and any s.
C6_FullDrawdownAnyInput ==
    (dd_pc = "done" /\ dd_args.win_rate = RatInt(0)) =>
             dd_result = RatMul(RatInt(dd_args.num_trades_per_year),
                                dd_args.risk_per_trade)

\* C6 amended: simulate_drawdown(0, n, r, s) returns n * r for any n >= 0,
\* any r and any s >= 1.
C6_FullDrawdown ==
    (/\ dd_pc = "done"
     /\ dd_args.win_rate = RatInt(0)
     /\ dd_args.simulations >= 1) =>
             dd_result = RatMul(RatInt(dd_args.num_trades_per_year),
                                dd_args.risk_per_trade)

C6_Witness ==
    /\ dd_pc = "done"
    /\ dd_args.win_rate = RatInt(0)
    /\ dd_args.num_trades_per_year = 3
    /\ dd_args.risk_per_trade = RatInt(2)
    /\ dd_args.simulations = 2
    /\ dd_trades = <<0, 0, 0>>
    /\ dd_result = RatInt(6)

(***************************************************************************)
(* Claims about input validation (specification Spec).                     *)
(***************************************************************************)
\* C7: an invalid configuration (here trades_per_year <= 0) is rejected
\* before any sampling: no outcome sequence is shuffled and no simulation
\* result is produced.
C7_InvalidConfigRejected ==
    simulator.trades_per_year <= 0 =>
        /\ year_pc \notin {"trades", "done"}
        /\ results = <<>>

(***************************************************************************)
(* Claims about nearest_positive_definite (specification RepairSpec).      *)
(***************************************************************************)
\* the vectors with entries -1, 0, 1, the zero vector left out
TestVectors(n) == {x \in [1..n -> {-1, 0, 1}] : \E i \in 1..n : x[i] # 0}

RECURSIVE RatSumOver(_, _)
RatSumOver(f, S) ==
    IF S = {} THEN RatInt(0)
    ELSE LET e == CHOOSE e \in S : TRUE
         IN  RatAdd(f[e], RatSumOver(f, S \ {e}))

\* x^T M x
QuadraticForm(M, x) ==
    RatSumOver([ij \in (1..Len(M)) \X (1..Len(M)) |->
                   RatMul(RatInt(x[ij[1]] * x[ij[2]]), M[ij[1]][ij[2]])],
               (1..Len(M)) \X (1..Len(M)))

\* x^T M x > 0 on the test vectors, which include the eigenvectors
\* (1, ..., 1) and (1, -1, 0, ..., 0) of the matrices of the model
PositiveOnTestVectors(M) ==
    \A x \in TestVectors(Len(M)) : RatLt(RatInt(0), QuadraticForm(M, x))

\* C9: whenever nearest_positive_definite returns, on the early-return path
\* or after the loop, is_positive_definite of the returned matrix is true
\* (and the matrix is positive on the test vectors).
C9_ReturnsPositiveDefinite ==
    repair_pc = "returned" =>
        /\ is_positive_definite(A3)
        /\ PositiveOnTestVectors(A3)

\* the 3x3 matrix with correlation -1, eigenvalues 2, 2, -1, after one
\* iteration of the loop
C9_Witness ==
    /\ repair_pc = "returned"
    /\ A = generate_correlation_matrix(3, RatInt(-1))
    /\ repair_paths = <<"loop">>
    /\ iterations = 1
    /\ A3[1][1] = RatAdd(Rat(4, 3), Spacing(A))

\* C10: for a symmetric matrix M that is already positive definite,
\* nearest_positive_definite returns M itself by the early return, so a
\* second repair of a repaired matrix returns it unchanged.
C10_IdempotentOnPositiveDefinite ==
    repair_pc = "returned" =>
        /\ PositiveOnTestVectors(A) =>
              /\ A3 = A
              /\ repair_paths[Len(repair_paths)] = "early"
        /\ Len(repair_paths) >= 2 => A3 = A

\* the second repair of a matrix the first repair had to shift
C10_Witness ==
    /\ repair_pc = "returned"
    /\ repair_paths = <<"loop", "early">>
    /\ Len(A) = 3
    /\ A3 = A
    /\ A[1][1] # RatInt(1)

(***************************************************************************)
(* Claims about the asset-correlation page (specification PageSpec).       *)
(***************************************************************************)
\* C11: for every n >= 1 and every c, generate_correlation_matrix(n, c) is an
\* n x n matrix with every diagonal entry 1 and every off-diagonal entry c,
\* hence symmetric.
C11_UniformCorrelationMatrix ==
    LET c == IF page_pc = "sweep_gate" THEN correlation_values[sweep_idx]
             ELSE config.correlation
    IN  (/\ config.corr_type = "single"
         /\ page_pc \in {"gate", "end", "simulated", "sweep_gate"}) =>
            /\ Len(corr_matrix) = config.num_assets
            /\ \A i \in 1..config.num_assets :
                  /\ Len(corr_matrix[i]) = config.num_assets
                  /\ \A j \in 1..config.num_assets :
                        /\ corr_matrix[i][j] = IF i = j THEN RatInt(1) ELSE c
                        /\ corr_matrix[i][j] = corr_matrix[j][i]

C11_Witness ==
    /\ page_pc = "gate"
    /\ config.corr_type = "single"
    /\ config.num_assets = 3
    /\ config.correlation = Rat(-1, 2)
    /\ corr_matrix[1] = <<RatInt(1), Rat(-1, 2), Rat(-1, 2)>>
    /\ corr_matrix[3] = <<Rat(-1, 2), Rat(-1, 2), RatInt(1)>>

(***************************************************************************)
(* Further claims about TradingSimulator (specification Spec).             *)
(***************************************************************************)
\* C17: with initial_aum > 0, 0 <= risk_per_trade < 1 and
\* return_per_unit_risk >= 0, the AUM is strictly positive after every trade
\* of every trial, and so is every element simulate_year returns.
C17_AumStaysPositive ==
    (/\ year_pc \in {"loop", "trades", "done"}
     /\ RatLt(RatInt(0), simulator.initial_aum)
     /\ RatLe(RatInt(0), simulator.risk_per_trade)
     /\ RatLt(simulator.risk_per_trade, One)
     /\ RatLe(RatInt(0), year_args.return_per_unit_risk)) =>
        /\ year_pc = "trades" => RatLt(RatInt(0), current_aum)
        /\ \A i \in 1..Len(results) : RatLt(RatInt(0), results[i])

\* three losses in a row at half the AUM per trade: 100 -> 50 -> 25 -> 12.5
C17_Witness ==
    /\ year_pc = "done"
    /\ simulator.risk_per_trade = Rat(1, 2)
    /\ simulator.trades_per_year = MaxTrades
    /\ outcomes = Repeat(FALSE, MaxTrades)
    /\ Len(results) >= 1
    /\ results[Len(results)] =
          RatMul(simulator.initial_aum, RatPow(Rat(1, 2), MaxTrades))

\* C19: the constructor stores its four arguments unmodified, and no step
\* of simulate_trade or simulate_year changes a field of the simulator; the
\* only change is a caller's assignment of win_rate between calls.
C19_FieldsFrame ==
    /\ simulator \in [initial_aum : AumSet, win_rate : WinRateSet,
                      trades_per_year : TradesSet, risk_per_trade : RiskSet]
    /\ [][\/ simulator' = simulator
          \/ /\ year_pc \in {"idle", "done"}
             /\ year_pc' = year_pc
             /\ results' = results
             /\ last_trade' = last_trade
             /\ simulator' = [simulator EXCEPT !.win_rate = simulator'.win_rate]
       ]_vars

\* two simulate_year calls and a simulate_trade call have run
C19_Witness ==
    /\ calls = MaxCalls
    /\ year_pc = "done"
    /\ Len(results) = MaxSimulations
    /\ simulator.trades_per_year = MaxTrades
    /\ n_wins = 1
    /\ results[1] # simulator.initial_aum

(***************************************************************************)
(* Further claims about the asset-correlation page (specification          *)
(* PageSpec).                                                              *)
(***************************************************************************)
\* C15: a 2-asset run in single-correlation mode with correlation 1.0 is
\* not stopped by the positive-definiteness check: it reaches the price
\* simulation and draws its log returns.
C15_PerfectCorrelationSimulated ==
    (/\ config.corr_type = "single"
     /\ config.num_assets = 2
     /\ config.correlation = RatInt(1)
     /\ page_pc \notin {"inputs", "vectors", "build", "gate"}) =>
        /\ ~page_error
        /\ page_pc # "end"
        /\ sampled.log_returns

\* C20: in the main simulation and in the correlation sweep the log-return
\* sampler is called with covariance vol[i] * C[i][j] * vol[j] and mean
\* mean_vector[i] - 0.5 * vol[i]^2, where C is the correlation matrix that
\* passed the positive-definiteness check.
C20_SamplerArguments ==
    page_pc \in {"simulated", "sweep_sampled"} =>
        /\ PositiveOnTestVectors(corr_matrix)
        /\ Len(cov_matrix) = config.num_assets
        /\ Len(sampler_mean) = config.num_assets
        /\ \A i \in 1..config.num_assets :
              /\ sampler_mean[i] =
                    RatSub(mean_vector[i],
                           RatMul(Rat(1, 2), RatMul(volatility_vector[i],
                                                    volatility_vector[i])))
              /\ Len(cov_matrix[i]) = config.num_assets
              /\ \A j \in 1..config.num_assets :
                    cov_matrix[i][j] =
                        RatMul(volatility_vector[i],
                               RatMul(corr_matrix[i][j], volatility_vector[j]))

\* a sweep draw for two assets of different volatility at correlation 0.6
C20_Witness ==
    /\ page_pc = "sweep_sampled"
    /\ config.num_assets = 2
    /\ correlation_values[sweep_idx] = Rat(3, 5)
    /\ volatility_vector = <<Rat(1, 20), Rat(1, 8)>>
    /\ mean_vector = <<Rat(1, 100), Rat(1, 100)>>
    /\ cov_matrix[1][2] = Rat(3, 800)
    /\ cov_matrix[2][2] = Rat(1, 64)
    /\ sampler_mean[2] = Rat(7, 3200)

(***************************************************************************)
(* Claims about calculate_metrics (specification MetricsSpec).             *)
(***************************************************************************)
\* the arguments of the call that produced metrics_data[idx]: the asset
\* columns first, the portfolio last
CallSeries(idx) ==
    IF idx <= Len(log_returns[1]) THEN Column(prices, idx) ELSE portfolio

CallReturns(idx) ==
    IF idx <= Len(log_returns[1]) THEN Column(log_returns, idx)
    ELSE RowMeans(log_returns)

StrictlyRising(series) ==
    /\ Len(series) >= 2
    /\ \A i \in 2..Len(series) : RatLt(series[i - 1], series[i])

Undefined == <<NaN, 1>>

\* C12: Calmar is annualized_return / max_drawdown when max_drawdown is not
\* 0 and NaN when max_drawdown is 0, whatever the annualized return.
C12_CalmarUndefinedAtZeroDrawdown ==
    \A idx \in DOMAIN metrics_data :
        LET m == metrics_data[idx]
        IN  IF m.max_drawdown[1] # 0
            THEN m.calmar_ratio = RatDiv(m.annualized_return, m.max_drawdown)
            ELSE m.calmar_ratio = NaN

\* C13 as stated: for every strictly rising price series and the return
\* series passed with it, max_drawdown is 0 and Sortino is NaN.
C13_RisingPricesSortinoUndefined ==
    \A idx \in DOMAIN metrics_data :
        StrictlyRising(CallSeries(idx)) =>
            /\ metrics_data[idx].max_drawdown[1] = 0
            /\ metrics_data[idx].sortino_ratio = Undefined

\* C13, amended: for every strictly rising price series max_drawdown is 0,
\* and Sortino is NaN exactly when the return series passed with it has no
\* negative entry; the first return of a column is not seen in its prices.
C13_RisingPrices ==
    \A idx \in DOMAIN metrics_data :
        StrictlyRising(CallSeries(idx)) =>
            /\ metrics_data[idx].max_drawdown[1] = 0
            /\ metrics_data[idx].sortino_ratio = Undefined
                  <=> \A i \in DOMAIN CallReturns(idx) :
                         ~RatLt(CallReturns(idx)[i], RatInt(0))

\* a column that rises every day after a first return below zero, and one
\* that rises from the first day
C13_Witness ==
    /\ metrics_pc = "done"
    /\ Len(log_returns) = MaxDays
    /\ Len(log_returns[1]) = 2
    /\ StrictlyRising(CallSeries(1))
    /\ CallReturns(1)[1] = Rat(-7, 10)
    /\ metrics_data[1].sortino_ratio # Undefined
    /\ \A i \in 1..MaxDays : CallReturns(2)[i] = Rat(7, 10)
    /\ metrics_data[2].sortino_ratio = Undefined
    /\ metrics_data[2].max_drawdown = RatInt(0)

\* C14: with zero volatility of the return series, Sharpe and Sortino are
\* both reported as NaN, never as a finite number or an infinity.
C14_ZeroVolatilityUndefined ==
    \A idx \in DOMAIN metrics_data :
        metrics_data[idx].annualized_volatility = <<RatInt(0), 1>> =>
            /\ metrics_data[idx].sharpe_ratio = Undefined
            /\ metrics_data[idx].sortino_ratio = Undefined

(***************************************************************************)
(* Claim about the statistical-mean scenario (specification ScenarioSpec). *)
(***************************************************************************)
\* C16: with the scenario's arguments every terminal AUM simulate_year
\* appends, for every order of the shuffled outcomes, lies strictly between
\* 110,000 and 135,000, and so does the mean of the 5000 of them.
C16_MeanWithinBand ==
    scenario_pc = "appended" =>
        /\ ScenarioSimulations > 0
        /\ aum_low <= aum_high
        /\ ScenarioLowerBound * CentsPerUnit < aum_low
        /\ aum_high < ScenarioUpperBound * CentsPerUnit

\* a finished trial: ten wins and ten losses taken, near 121,500
C16_Witness ==
    /\ scenario_pc = "appended"
    /\ wins_left = 0
    /\ losses_left = 0
    /\ aum_low > 121000 * CentsPerUnit
    /\ aum_high < 122000 * CentsPerUnit

(***************************************************************************)
(* Claim about the random sources (specification SeedSpec).                *)
(***************************************************************************)
\* C18: two runs of the same sampling operation that start from the same
\* state of the seeded random source return identical outputs.
C18_SeededRunsReproducible ==
    \A i, j \in DOMAIN runs :
        (runs[i].op = runs[j].op /\ runs[i].start = runs[j].start) =>
            runs[i].output = runs[j].output

(***************************************************************************)
(* Further claims about simulate_drawdown (specification DrawdownSpec).    *)
(***************************************************************************)
\* n x r for the arguments of the current call
FullDrawdown ==
    RatMul(RatInt(dd_args.num_trades_per_year), dd_args.risk_per_trade)

\* C21: for a win rate in [0, 100], n >= 0 trades, risk r >= 0 and at least
\* one simulation, simulate_drawdown returns d with 0 <= d <= n * r, whatever
\* the random draws.
C21_DrawdownWithinBounds ==
    (/\ dd_pc = "done"
     /\ dd_args.simulations >= 1
     /\ RatLe(RatInt(0), dd_args.win_rate)
     /\ RatLe(dd_args.win_rate, RatInt(100))
     /\ RatLe(RatInt(0), dd_args.risk_per_trade)) =>
        /\ dd_result # NaN
        /\ RatLe(RatInt(0), dd_result)
        /\ RatLe(dd_result, FullDrawdown)

\* two trials at win rate 50: one with a single loss, one with none
C21_Witness ==
    /\ dd_pc = "done"
    /\ dd_args.win_rate = RatInt(50)
    /\ dd_args.num_trades_per_year = 3
    /\ dd_args.risk_per_trade = RatInt(2)
    /\ dd_samples = <<<<1, 0, 1>>, <<1, 1, 1>>>>
    /\ dd_result = RatInt(1)

\* what lines 94-101 return for the trades arrays `samples` at risk r: the
\* arrays np.random.choice draws do not depend on risk_per_trade
DrawdownAt(samples, r) ==
    Mean([i \in 1..Len(samples) |->
             RatMul(RatInt(max_consecutive_losses(samples[i])), r)])

HasLoss(trades) == \E i \in DOMAIN trades : trades[i] = 0

\* C22: for the same sampled trade sequences the result is linear in
\* risk_per_trade: the result at risk r2 is (r2 / r1) times the result at
\* risk r1 > 0, so a higher risk never gives a lower drawdown and gives a
\* strictly higher one when some trial contains a loss.
C22_LinearInRisk ==
    (/\ dd_pc = "done"
     /\ dd_args.simulations >= 1
     /\ RatLt(RatInt(0), dd_args.risk_per_trade)) =>
        \A r2 \in DrawdownRiskSet :
            LET r1 == dd_args.risk_per_trade
                d2 == DrawdownAt(dd_samples, r2)
            IN  /\ d2 = RatMul(RatDiv(r2, r1), dd_result)
                /\ RatLt(r1, r2) => RatLe(dd_result, d2)
                /\ (/\ RatLt(r1, r2)
                    /\ \E i \in DOMAIN dd_samples : HasLoss(dd_samples[i])) =>
                       RatLt(dd_result, d2)

\* streaks of 2 and 1 at risk 1/2 give 3/4; the same arrays at risk 2 give 3
C22_Witness ==
    /\ dd_pc = "done"
    /\ dd_args.risk_per_trade = Rat(1, 2)
    /\ dd_samples = <<<<0, 0, 1>>, <<1, 0, 1>>>>
    /\ dd_result = Rat(3, 4)
    /\ DrawdownAt(dd_samples, RatInt(2)) = RatInt(3)

DisplayedMax ==
    max_drawdown_displayed(dd_args.num_trades_per_year, dd_args.win_rate,
                           dd_args.risk_per_trade)

LossCount(trades) == Cardinality({i \in DOMAIN trades : trades[i] = 0})

LongestLossRun(trades) ==
    LET runs_ == {len \in 0..Len(trades) :
                    \E i \in 1..(Len(trades) - len + 1) :
                        \A j \in i..(i + len - 1) : trades[j] = 0}
    IN  CHOOSE len \in runs_ : \A other \in runs_ : other <= len

\* C24: _max_consecutive_losses returns the length of the longest contiguous
\* run of 0s (0 for an empty or all-win sequence), it never decreases when
\* trades are appended, and simulate_drawdown returns the arithmetic mean
\* over the trials of that length times risk_per_trade.
C24_LongestRunTimesRisk ==
    /\ \A i \in DOMAIN dd_samples :
          LET t == dd_samples[i]
          IN  /\ max_consecutive_losses(t) = LongestLossRun(t)
              /\ ~HasLoss(t) => max_consecutive_losses(t) = 0
              /\ \A m \in 1..Len(t) :
                    max_consecutive_losses(SubSeq(t, 1, m - 1))
                        <= max_consecutive_losses(SubSeq(t, 1, m))
              /\ drawdowns[i] =
                    RatMul(RatInt(LongestLossRun(t)), dd_args.risk_per_trade)
    /\ (dd_pc = "done" /\ dd_args.simulations >= 1) =>
          dd_result =
            RatDiv(RatSum([i \in 1..Len(dd_samples) |->
                              RatMul(RatInt(LongestLossRun(dd_samples[i])),
                                     dd_args.risk_per_trade)]),
                   RatInt(dd_args.simulations))

\* two separate losses make a streak of 1, two adjacent ones a streak of 2
C24_Witness ==
    /\ dd_pc = "done"
    /\ dd_args.risk_per_trade = RatInt(2)
    /\ dd_samples = <<<<0, 1, 0>>, <<1, 0, 0>>>>
    /\ drawdowns = <<RatInt(2), RatInt(4)>>
    /\ dd_result = RatInt(3)

(***************************************************************************)
(* Claims about the order of the trades (specification Spec).              *)
(***************************************************************************)
\* initial_aum * (1 + risk * rpur)^wins * (1 - risk)^losses
CompoundedAum(wins, losses) ==
    RatMul(simulator.initial_aum,
           RatMul(RatPow(RatAdd(One, RatMul(simulator.risk_per_trade,
                                            year_args.return_per_unit_risk)),
                         wins),
                  RatPow(RatSub(One, simulator.risk_per_trade), losses)))

\* C27: the terminal AUM of a trial does not depend on the order of its
\* trades: folding simulate_trade over any permutation of the outcomes gives
\* initial_aum * (1 + risk * rpur)^wins * (1 - risk)^losses, so all elements
\* one simulate_year call returns are equal.
C27_OrderIndependent ==
    LET wins == Floor(RatMul(year_args.win_rate,
                             RatInt(simulator.trades_per_year)))
        done_trades == SubSeq(outcomes, 1, trade_idx - 1)
    IN  /\ year_pc = "trades" =>
              current_aum = CompoundedAum(Wins(done_trades), Losses(done_trades))
        /\ year_pc \in {"loop", "trades", "done"} =>
              \A i \in 1..Len(results) :
                  /\ results[i] =
                        CompoundedAum(wins, simulator.trades_per_year - wins)
                  /\ results[i] = results[1]

\* the second trial of a call ends on a win after two losses
C27_Witness ==
    /\ year_pc = "done"
    /\ simulator.trades_per_year = 3
    /\ year_args.win_rate = Rat(1, 2)
    /\ simulator.risk_per_trade = Rat(1, 10)
    /\ year_args.return_per_unit_risk = RatInt(2)
    /\ outcomes = <<FALSE, FALSE, TRUE>>
    /\ results = <<Rat(486, 5), Rat(486, 5)>>

(***************************************************************************)
(* Claim about a parallel caller (specification ConcurrentSpec).           *)
(***************************************************************************)
\* C30: if another caller assigns simulator.win_rate while simulate_year of
\* utils/risk_simulation.py is running, every trial of that call still has
\* trades_per_year outcomes and the win count computed once before the trial
\* loop, the same for all its trials.
C30_WinCountFixedPerCall ==
    (impl = "utils" /\ year_pc \in {"loop", "trades", "done"}) =>
        /\ n_wins = Floor(RatMul(year_args.win_rate,
                                 RatInt(simulator.trades_per_year)))
        /\ year_pc = "trades" =>
              /\ Len(outcomes) = simulator.trades_per_year
              /\ Wins(outcomes) = n_wins
              /\ Losses(outcomes) = simulator.trades_per_year - n_wins

\* the second trial of a call made at win rate 1/2, started after win_rate
\* was set to 1: still one win in three trades
C30_Witness ==
    /\ impl = "utils"
    /\ year_pc = "trades"
    /\ trade_idx = 1
    /\ Len(results) = 1
    /\ year_args.win_rate = Rat(1, 2)
    /\ simulator.win_rate = One
    /\ simulator.trades_per_year = 3
    /\ outcomes = <<FALSE, TRUE, FALSE>>

Occurrences(seq, x) == Cardinality({i \in DOMAIN seq : seq[i] = x})

\* C25: log returns are sampled only for a matrix that passed
\* is_positive_definite; in the main run a failing matrix gives the error
\* message and no prices or metrics; in the sweep every value already visited
\* is either simulated (one portfolio series, one metrics row) or listed in
\* skipped_correlations, never both and never neither.
C25_GatedSampling ==
    /\ page_pc \in {"simulated", "sweep_sampled"} =>
          PositiveOnTestVectors(corr_matrix)
    /\ page_error <=> page_pc = "end"
    /\ page_error =>
          /\ ~PositiveOnTestVectors(corr_matrix)
          /\ ~sampled.log_returns
          /\ cov_matrix = NoMatrix
          /\ main_outputs = {}
          /\ portfolio_prices_dict = {}
          /\ metrics_correlations = <<>>
    /\ page_pc \in {"sweep", "done"} =>
          /\ main_outputs = {"prices", "metrics_df"}
          /\ Cardinality(portfolio_prices_dict) = Len(metrics_correlations)
          /\ Len(skipped_correlations) + Len(metrics_correlations)
                = sweep_idx - 1
          /\ page_pc = "done" => sweep_idx - 1 = Len(correlation_values)
          /\ \A idx \in 1..(sweep_idx - 1) :
                LET corr == correlation_values[idx]
                    simulated ==
                        /\ FormatOneDecimal(corr) \in portfolio_prices_dict
                        /\ Occurrences(metrics_correlations,
                                       FormatOneDecimal(corr)) = 1
                    skipped == Occurrences(skipped_correlations, corr) = 1
                    absent ==
                        /\ FormatOneDecimal(corr) \notin portfolio_prices_dict
                        /\ Occurrences(metrics_correlations,
                                       FormatOneDecimal(corr)) = 0
                IN  \/ simulated /\ Occurrences(skipped_correlations, corr) = 0
                    \/ skipped /\ absent

\* three assets: the values -1.0, -0.8, -0.6 and 1.0 fail the check and are
\* skipped, the other seven are simulated
C25_Witness ==
    /\ page_pc = "done"
    /\ config.num_assets = 3
    /\ config.corr_type = "single"
    /\ skipped_correlations = <<RatInt(-1), Rat(-4, 5), Rat(-3, 5), RatInt(1)>>
    /\ Len(metrics_correlations) = 7
    /\ Cardinality(portfolio_prices_dict) = 7
    /\ Rat(-2, 5) \in portfolio_prices_dict

(***************************************************************************)
(* Claim about the sweeps of the risk-return page (specification           *)
(* AnalysisSpec).                                                          *)
(***************************************************************************)
\* C29: within one "Run Simulation" pass simulator.win_rate equals the
\* user-selected win rate at every simulate_year call of the RPUR sweep,
\* because the win-rate sweep starts only after the RPUR sweep has finished;
\* once create_win_rate_vs_return_chart has run, simulator.win_rate is the
\* last sweep value 0.72 and is not restored.
C29_SweepOrder ==
    LET selected == RatDiv(win_rate_value, RatInt(100))
    IN  /\ \A i \in DOMAIN year_calls :
              year_calls[i].sweep = "rpur" =>
                  /\ year_calls[i].win_rate = selected
                  /\ year_calls[i].n_wins =
                        Floor(RatMul(selected,
                                     RatInt(simulator.trades_per_year)))
                  /\ \A j \in 1..(i - 1) : year_calls[j].sweep = "rpur"
        /\ analysis_pc \in {"button", "rpur_sweep"} =>
              simulator.win_rate = selected
        /\ analysis_pc = "win_rate_sweep" =>
              Len(year_calls) = Len(rpur_range) + sweep_pos - 1
        /\ analysis_pc = "done" =>
              /\ Len(year_calls) = Len(rpur_range) + Len(win_rates)
              /\ simulator.win_rate = Rat(72, 100)
              /\ year_calls[Len(year_calls)].win_rate = Rat(72, 100)

\* a pass at the default win rate 40: sixteen calls at 0.40, the first call
\* of the second sweep at 0.28, and 0.72 left in the simulator
C29_Witness ==
    /\ analysis_pc = "done"
    /\ win_rate_value = RatInt(40)
    /\ simulator.trades_per_year = 30
    /\ year_calls[16] = [sweep |-> "rpur", return_per_unit_risk |-> RatInt(8),
                         win_rate |-> Rat(2, 5), n_wins |-> 12]
    /\ year_calls[17].sweep = "win_rate"
    /\ year_calls[17].win_rate = Rat(7, 25)
    /\ simulator.win_rate = Rat(18, 25)
    /\ simulator.win_rate # RatDiv(win_rate_value, RatInt(100))

=============================================================================
